---- MODULE Spec2Model ----
(***************************************************************************)
(* Verification model of the homekit-bridge core:                          *)
(*   - the select-based run loop of the ESP port of the HomeKit ADK        *)
(*     (platform/esp/components/homekit_adk/port/src/HAPPlatformRunLoop.c),*)
(*   - the Lua message queue of the bridge (bridge/src/lmqlib.c).          *)
(* Each subsystem has its own specification over the shared variables.     *)
(***************************************************************************)
EXTENDS Integers, Sequences, FiniteSets, TLC

(***************************************************************************)
(* Bounds of the model                                                     *)
(***************************************************************************)
\* number of timers registered in one behaviour
MaxTimers == 2
\* number of file handles allocated in one behaviour (loopback handle included)
MaxFileHandles == 3
\* largest clock value (milliseconds)
MaxTime == 2
\* number of HAPPlatformRunLoopStop calls between two returns of Run
MaxStops == 3
\* timers and file handles allocated in one behaviour of the whole loop (Spec)
LoopMaxTimers == 2
LoopMaxFileHandles == 2
\* timers allocated in one behaviour of the lifecycle (SpecLife)
LifeMaxTimers == 1

\* number of threads that call HAPPlatformRunLoopScheduleCallback
NThreads == 2
\* number of continuations that use the message queue
NCos == 3
\* largest capacity a message queue is created with
MaxCapacity == 2
\* results a completion callback delivers to one operation before the model stops it
MaxDeliveries == 2
\* length of the buffers given to send, sendall and sendto
MaxLen == 2
MaxPending == 2

(***************************************************************************)
(* Program constants                                                       *)
(***************************************************************************)
\* NULL pointer
NULL == -1
\* invalid file descriptor
NoFd == -1
\* &runLoop.fileHandleSentinel
Sentinel == 0
\* descriptors of the loopback socket pair once opened
LoopbackFd0 == 1
LoopbackFd1 == 2
\* descriptor registered by the callers of Spec and SpecLife
LoopFd == 3

\* sizeof(HAPPlatformRunLoopCallback), a function pointer of the ESP32 (ILP32)
CallbackPtrSize == 4
\* UINT8_MAX
Uint8Max == 255
\* PIPE_BUF of the ESP-IDF C library
PipeBuf == 512
\* a faulty variant: the buffer has no room for the size byte
LoopbackBufSizeWithoutSizeByte == CallbackPtrSize + Uint8Max

\* sizeof runLoop.loopbackBytes
LoopbackBufSize == CallbackPtrSize + 1 + Uint8Max

Events == {"R", "W", "E"}
\* descriptors and interests that callers register
UserFDs == {3, 4}
InterestChoices == {{}, {"R"}, {"W", "E"}}
Deadlines == 0..MaxTime
AllFDs == UserFDs \cup {LoopbackFd0}

Min(a, b) == IF a < b THEN a ELSE b
VARIABLES
    state,        \* runLoop.state
    pc,           \* position of the loop thread
    fatal,        \* reason of process termination, "none" while alive
    now,          \* HAPPlatformClockGetCurrent()
    timers,       \* runLoop.timers: list of [id, deadline]
    timerCount,   \* number of timers allocated so far (ids are allocation order)
    timerAddr,    \* the address calloc returned for each timer: the value of its handle
    timerFate,    \* history: what became of each timer
    expiredTimer, \* ProcessExpiredTimers: timer whose callback is running
    tnow,         \* ProcessExpiredTimers: local 'now'
    fh,           \* file handle memory: id -> HAPPlatformFileHandle
    fhCount,      \* number of file handles allocated so far
    cursor,       \* runLoop.fileHandleCursor
    fileHandle,   \* ProcessSelectedFileHandles: handle whose callback is running
    fileHandleEvents, \* ProcessSelectedFileHandles: local fileHandleEvents, {} outside a callback
    fdsets,       \* read/write/error fd_sets of the current iteration
    timeoutAt,    \* time at which select times out, NULL for no timeout
    lbFd0, lbFd1, \* runLoop.loopbackFileDescriptor0/1
    lbHandle,     \* runLoop.loopbackFileHandle (0 when not registered)
    iterLog,      \* history: events of the current iteration of Run
    passEligible, \* history: handles signalled when the delivery pass began
    stopLog,      \* history: loop states in which Stop was called since Run last returned
    regFailed,    \* history: the register call of the last step that failed, with its outputs
    lateHandles,  \* history: handles registered in callbacks of the current iteration of Run
    channel,      \* datagrams sent on loopbackFileDescriptor1 and not yet received
    loopbackBytes,\* runLoop.loopbackBytes[0 .. numLoopbackBytes-1]
    contextSize,  \* HandleLoopbackFileHandleCallback: local contextSize
    thread,       \* the threads that call HAPPlatformRunLoopScheduleCallback
    lbInvoked,    \* history: scheduled callbacks invoked, with the context they saw
    first, last,  \* lmq_obj: ring indices
    size,         \* lmq_obj: capacity given to create
    buf,          \* the integer keys of the queue's user value: slot -> stored tuple
    wait,         \* the field "wait" of the user value: NoWait (nil) or a list of threads
    co,           \* the continuations (Lua threads) that use the queue
    running,      \* the continuation that is executing, 0 for none
    sends,        \* the calls of send that are resuming waiters, innermost last
    waitOrder,    \* history: the continuations suspended in recv, longest wait first
    sock,         \* the continuations (Lua threads) that call the socket primitives
    sockObj,      \* the socket objects: lsocket_obj.socket, and how often it was released
    palCall,      \* history: the platform socket function the last step called
    apiCheck,     \* the Lua library was built with LUA_USE_APICHECK
    pending,      \* the requests the platform holds: operation, socket and continuation to resume
    cbReg,        \* history: the request whose completion callback the last step ran
    stampDiff,    \* miio pcb: self.stampDiff, LuaNil or the offset of the device's time stamp
    req           \* the continuations that call pcb:request: position and history of the call

loopVars == <<state, pc, fatal, now, timers, timerCount, timerAddr, timerFate, expiredTimer, tnow,
              fh, fhCount, cursor, fileHandle, fileHandleEvents, fdsets, timeoutAt,
              lbFd0, lbFd1, lbHandle, iterLog, passEligible, stopLog, regFailed,
              lateHandles>>

lbVars == <<channel, loopbackBytes, contextSize, thread, lbInvoked>>

mqVars == <<first, last, size, buf, wait, co, running, sends, waitOrder>>

sockVars == <<sock, sockObj, palCall, apiCheck, pending, cbReg>>

miioVars == <<stampDiff, req>>

otherVars == <<lbVars, mqVars, sockVars, miioVars>>

vars == <<loopVars, lbVars, mqVars, sockVars, miioVars>>

(***************************************************************************)
(* File handle list: circular doubly-linked list through the sentinel      *)
(***************************************************************************)
HandleIds == 1..MaxFileHandles

ClearedFileHandle ==
    [fd |-> NoFd, interests |-> {}, callback |-> "NULL",
     prev |-> NULL, next |-> NULL, awaiting |-> FALSE]

SentinelInit ==
    [fd |-> NoFd, interests |-> {}, callback |-> "NULL",
     prev |-> Sentinel, next |-> Sentinel, awaiting |-> FALSE]

RECURSIVE Walk(_, _, _)
\* handles reached from h by next pointers before the sentinel (fuel bounds a corrupt list)
Walk(f, h, fuel) ==
    IF h = Sentinel \/ h = NULL \/ fuel = 0 THEN <<>>
    ELSE <<h>> \o Walk(f, f[h].next, fuel - 1)

FHList(f) == Walk(f, f[Sentinel].next, MaxFileHandles + 1)

SeqToSet(s) == {s[i] : i \in 1..Len(s)}

Registered(f) == SeqToSet(FHList(f))

\* a faulty variant: the new handle is marked as awaiting events
LinkFileHandleAwaiting(f, h, fd, interests, callback) ==
    LET tail == f[Sentinel].prev
        f1 == [f EXCEPT ![h] = [fd |-> fd, interests |-> interests, callback |-> callback,
                                prev |-> tail, next |-> Sentinel, awaiting |-> TRUE]]
        f2 == [f1 EXCEPT ![tail].next = h]
    IN [f2 EXCEPT ![Sentinel].prev = h]

\* HAPPlatformFileHandleRegister, the list insertion before the sentinel
LinkFileHandle(f, h, fd, interests, callback) ==
    LET tail == f[Sentinel].prev
        f1 == [f EXCEPT ![h] = [fd |-> fd, interests |-> interests, callback |-> callback,
                                prev |-> tail, next |-> Sentinel, awaiting |-> FALSE]]
        f2 == [f1 EXCEPT ![tail].next = h]
    IN [f2 EXCEPT ![Sentinel].prev = h]

\* a faulty variant: the cursor is moved to the end of the list instead of to the next handle
CursorAfterDeregisterToEnd(f, h, c) == IF h = c THEN Sentinel ELSE c

\* HAPPlatformFileHandleDeregister, the cursor adjustment
CursorAfterDeregister(f, h, c) == IF h = c THEN f[h].next ELSE c

\* a faulty variant: the back pointer of the successor is not updated
UnlinkFileHandleForwardOnly(f, h) ==
    LET p == f[h].prev
        n == f[h].next
        f1 == [f EXCEPT ![p].next = n]
    IN [f1 EXCEPT ![h] = ClearedFileHandle]

\* HAPPlatformFileHandleDeregister, unlinking and invalidating the handle
UnlinkFileHandle(f, h) ==
    LET p == f[h].prev
        n == f[h].next
        f1 == [f EXCEPT ![p].next = n]
        f2 == [f1 EXCEPT ![n].prev = p]
    IN [f2 EXCEPT ![h] = ClearedFileHandle]

(***************************************************************************)
(* Timer list                                                              *)
(***************************************************************************)
\* a faulty variant: the deadline is stored as given
StoredDeadlineAsGiven(deadline) == deadline

\* HAPPlatformTimerRegister: the deadline that is stored
StoredDeadline(deadline) == IF deadline # 0 THEN deadline ELSE 1

\* a faulty variant: the new timer always becomes the head of the list
InsertPosFront(ts, deadline) == 1

\* HAPPlatformTimerRegister: position found by the insertion scan, which
\* compares the deadlines in the list with the deadline argument
InsertPos(ts, deadline) ==
    IF \E i \in 1..Len(ts) : ts[i].deadline > deadline
    THEN CHOOSE i \in 1..Len(ts) :
            /\ ts[i].deadline > deadline
            /\ \A j \in 1..(i - 1) : ~(ts[j].deadline > deadline)
    ELSE Len(ts) + 1

InsertAt(ts, k, t) == SubSeq(ts, 1, k - 1) \o <<t>> \o SubSeq(ts, k, Len(ts))

TimerIds(ts) == {ts[i].id : i \in 1..Len(ts)}

\* the handle a register call outputs when calloc returned NULL
NullHandle == 0

\* no register call failed in the step
NoFailure == [fn |-> "none", err |-> "None", handle |-> NullHandle]

\* a faulty variant: the failed call reports success
RegisterFailedSilently(fn) == [fn |-> fn, err |-> "None", handle |-> NullHandle]

\* HAPPlatformFileHandleRegister, HAPPlatformTimerRegister: what the call
\* returns and stores in its output parameter when calloc returned NULL
RegisterFailed(fn) == [fn |-> fn, err |-> "OutOfResources", handle |-> NullHandle]

(***************************************************************************)
(* Initial state: the static initialiser of runLoop                        *)
(***************************************************************************)
LoopInit ==
    /\ state = "Idle"
    /\ pc = "out"
    /\ fatal = "none"
    /\ now = 0
    /\ timers = <<>>
    /\ timerCount = 0
    /\ timerAddr = <<>>
    /\ timerFate = <<>>
    /\ expiredTimer = 0
    /\ tnow = 0
    /\ fh = [h \in 0..MaxFileHandles |-> IF h = Sentinel THEN SentinelInit ELSE ClearedFileHandle]
    /\ fhCount = 0
    /\ cursor = Sentinel
    /\ fileHandle = 0
    /\ fileHandleEvents = {}
    /\ fdsets = [d \in AllFDs |-> {}]
    /\ timeoutAt = NULL
    /\ lbFd0 = NoFd
    /\ lbFd1 = NoFd
    /\ lbHandle = 0
    /\ iterLog = <<>>
    /\ passEligible = {}
    /\ stopLog = <<>>
    /\ regFailed = NoFailure
    /\ lateHandles = {}

Threads == 1..NThreads

LoopbackInit ==
    /\ channel = <<>>
    /\ loopbackBytes = <<>>
    /\ contextSize = 0
    /\ thread = [t \in Threads |-> [pc |-> "ready", size |-> 0, err |-> "none"]]
    /\ lbInvoked = <<>>

\* code of the caller runs on the loop thread: outside Run or inside a callback
UserCode == pc \in {"out", "timerCb", "fhCb", "lbCb"}

Die(why) ==
    /\ pc' = "fatal"
    /\ fatal' = why

(***************************************************************************)
(* Timers                                                                  *)
(***************************************************************************)
\* the blocks calloc can return for timers
TimerAddrs == 1..MaxTimers

\* the timers whose memory is allocated: the pending ones and the one whose
\* callback is running
AllocatedTimers(ts, e) == TimerIds(ts) \cup (IF e # 0 THEN {e} ELSE {})

\* calloc: any block that is not allocated; of the blocks never handed out the
\* lowest stands for all
FreeTimerAddrs(ts, e, addr) ==
    LET used == {addr[i] : i \in 1..Len(addr)}
    IN {a \in TimerAddrs :
          /\ \A id \in AllocatedTimers(ts, e) : addr[id] # a
          /\ a \in used \/ \A b \in TimerAddrs : b < a => b \in used}

\* HAPPlatformTimerRegister: calloc gives a block (allocated) or NULL
HAPPlatformTimerRegister(deadline, allocated) ==
    /\ UserCode
    /\ allocated => timerCount < MaxTimers
    /\ IF allocated
       THEN /\ timerCount' = timerCount + 1
            /\ timers' = InsertAt(timers, InsertPos(timers, deadline),
                                  [id |-> timerCount + 1, deadline |-> StoredDeadline(deadline)])
            /\ \E a \in FreeTimerAddrs(timers, expiredTimer, timerAddr) :
                  timerAddr' = Append(timerAddr, a)
            /\ timerFate' = Append(timerFate, "pending")
            /\ regFailed' = NoFailure
       ELSE /\ regFailed' = RegisterFailed("HAPPlatformTimerRegister")
            /\ UNCHANGED <<timerCount, timers, timerAddr, timerFate>>
    /\ UNCHANGED <<state, pc, fatal, now, expiredTimer, tnow, fh, fhCount, cursor, fileHandle, fileHandleEvents,
                   fdsets, timeoutAt, lbFd0, lbFd1, lbHandle, iterLog, passEligible, stopLog>>
    /\ UNCHANGED <<lateHandles, otherVars>>

\* a faulty variant: the scan stops at the first pending timer, whatever its address
TimerFoundFirst(ts, addr, handle) == IF ts = <<>> THEN {} ELSE {Head(ts).id}

\* HAPPlatformTimerDeregister: the pending timers whose address is the handle
TimerFound(ts, addr, handle) == {t \in TimerIds(ts) : addr[t] = handle}

\* HAPPlatformTimerDeregister(timerAddr[id]): the caller passes the handle it
\* was given for timer id
HAPPlatformTimerDeregister(id) ==
    /\ UserCode
    /\ id \in 1..timerCount
    /\ LET found == TimerFound(timers, timerAddr, timerAddr[id])
       IN IF found # {}
          THEN /\ timers' = SelectSeq(timers, LAMBDA t : t.id \notin found)
               /\ timerFate' = [timerFate EXCEPT ![CHOOSE t \in found : TRUE] =
                                  IF pc = "timerCb" /\ \E k \in 1..Len(timers) :
                                        timers[k].id \in found /\ timers[k].deadline <= tnow
                                  THEN "cancelledDue" ELSE "cancelled"]
               /\ UNCHANGED <<pc, fatal>>
          ELSE /\ Die("timerNotFound")
               /\ UNCHANGED <<timers, timerFate>>
    /\ UNCHANGED <<state, now, timerCount, timerAddr, expiredTimer, tnow, fh, fhCount, cursor,
                   fileHandle, fileHandleEvents, fdsets, timeoutAt, lbFd0, lbFd1, lbHandle, iterLog, passEligible,
                   stopLog>>
    /\ regFailed' = NoFailure
    /\ UNCHANGED <<lateHandles, otherVars>>

\* a faulty variant: a timer whose deadline equals the clock value is not yet expired
HeadExpiredStrictly(ts, t) == ts # <<>> /\ Head(ts).deadline < t

\* a faulty variant: a timer counts as expired one clock unit before its deadline
HeadExpiredEarly(ts, t) == ts # <<>> /\ ~(Head(ts).deadline > t + 1)

\* ProcessExpiredTimers: is the head of the list expired
HeadExpired(ts, t) == ts # <<>> /\ ~(Head(ts).deadline > t)

\* a faulty variant: the expired timer stays at the head of the list
TimersAfterExpiryKept(ts) == ts

\* ProcessExpiredTimers: the head is taken off the list before its callback runs
TimersAfterExpiry(ts) == Tail(ts)

\* ProcessExpiredTimers, one turn of the while loop up to the callback invocation
ProcessExpiredTimersStep ==
    /\ pc = "timers"
    /\ IF HeadExpired(timers, tnow)
       THEN /\ expiredTimer' = Head(timers).id
            /\ timers' = TimersAfterExpiry(timers)
            /\ timerFate' = [timerFate EXCEPT ![Head(timers).id] = "fired"]
            /\ iterLog' = Append(iterLog, <<"T", Head(timers).id>>)
            /\ pc' = "timerCb"
            /\ UNCHANGED <<cursor, passEligible>>
       ELSE \* ProcessSelectedFileHandles begins
            /\ pc' = "io"
            /\ cursor' = fh[Sentinel].next
            /\ passEligible' = {h \in Registered(fh) :
                                   /\ fh[h].awaiting
                                   /\ fh[h].callback # "NULL"
                                   /\ fh[h].interests \cap fdsets[fh[h].fd] # {}}
            /\ iterLog' = Append(iterLog, <<"IO", 0>>)
            /\ UNCHANGED <<expiredTimer, timers, timerFate>>
    /\ UNCHANGED <<state, fatal, now, timerCount, timerAddr, tnow, fh, fhCount, fileHandle, fileHandleEvents,
                   fdsets, timeoutAt, lbFd0, lbFd1, lbHandle, stopLog>>
    /\ regFailed' = NoFailure
    /\ UNCHANGED <<lateHandles, otherVars>>

\* the timer callback returns; the expired timer is freed
TimerCallbackReturn ==
    /\ pc = "timerCb"
    /\ pc' = "timers"
    /\ expiredTimer' = 0
    /\ UNCHANGED <<state, fatal, now, timers, timerCount, timerAddr, timerFate, tnow, fh, fhCount, cursor, fileHandle, fileHandleEvents,
                   fdsets, timeoutAt, lbFd0, lbFd1, lbHandle, iterLog, passEligible, stopLog>>
    /\ regFailed' = NoFailure
    /\ UNCHANGED <<lateHandles, otherVars>>

(***************************************************************************)
(* File handles                                                            *)
(***************************************************************************)
\* HAPPlatformFileHandleRegister: calloc gives a block (allocated) or NULL
HAPPlatformFileHandleRegister(fd, interests, allocated) ==
    /\ UserCode
    /\ allocated => fhCount < MaxFileHandles
    /\ IF allocated
       THEN /\ fhCount' = fhCount + 1
            /\ fh' = LinkFileHandle(fh, fhCount + 1, fd, interests, "user")
            /\ lateHandles' = IF pc = "out" THEN lateHandles ELSE lateHandles \cup {fhCount + 1}
            /\ regFailed' = NoFailure
       ELSE /\ regFailed' = RegisterFailed("HAPPlatformFileHandleRegister")
            /\ UNCHANGED <<fhCount, fh, lateHandles>>
    /\ UNCHANGED <<state, pc, fatal, now, timers, timerCount, timerAddr, timerFate, expiredTimer, tnow, cursor,
                   fileHandle, fileHandleEvents, fdsets, timeoutAt, lbFd0, lbFd1, lbHandle, iterLog,
                   passEligible, stopLog>>
    /\ UNCHANGED otherVars

HAPPlatformFileHandleUpdateInterests(h, interests, callback) ==
    /\ UserCode
    /\ h \in Registered(fh)
    /\ h # lbHandle
    /\ <<interests, callback>> # <<fh[h].interests, fh[h].callback>>
    /\ fh' = [fh EXCEPT ![h].interests = interests, ![h].callback = callback]
    /\ UNCHANGED <<state, pc, fatal, now, timers, timerCount, timerAddr, timerFate, expiredTimer, tnow, fhCount,
                   cursor, fileHandle, fileHandleEvents, fdsets, timeoutAt, lbFd0, lbFd1, lbHandle, iterLog,
                   passEligible, stopLog>>
    /\ regFailed' = NoFailure
    /\ UNCHANGED <<lateHandles, otherVars>>

HAPPlatformFileHandleDeregister(h) ==
    /\ UserCode
    /\ h \in Registered(fh)
    /\ h # lbHandle
    /\ cursor' = CursorAfterDeregister(fh, h, cursor)
    /\ fh' = UnlinkFileHandle(fh, h)
    /\ UNCHANGED <<state, pc, fatal, now, timers, timerCount, timerAddr, timerFate, expiredTimer, tnow, fhCount,
                   fileHandle, fileHandleEvents, fdsets, timeoutAt, lbFd0, lbFd1, lbHandle, iterLog,
                   passEligible, stopLog>>
    /\ regFailed' = NoFailure
    /\ UNCHANGED <<lateHandles, otherVars>>

\* a faulty variant: every event signalled for the descriptor is passed on
FileHandleEventsSignalled(f, h, sets) == sets[f[h].fd]

\* ProcessSelectedFileHandles: the events passed to the callback
FileHandleEvents(f, h, sets) == f[h].interests \cap sets[f[h].fd]

\* a faulty variant: the flag survives the dispatch
AwaitingAfterDispatchKept == TRUE

\* ProcessSelectedFileHandles: isAwaitingEvents of the handle taken from the
\* cursor, written before the callback is looked at
AwaitingAfterDispatch == FALSE

\* ProcessSelectedFileHandles: the cursor while the callback of h runs
CursorBeforeCallback(f, h) == f[h].next

\* ProcessSelectedFileHandles, one turn of the while loop up to the callback
\* invocation; the callback is the caller's or HandleLoopbackFileHandleCallback
ProcessSelectedFileHandlesStep ==
    /\ pc = "io"
    /\ IF cursor = Sentinel
       THEN /\ pc' = "cond"
            /\ iterLog' = Append(iterLog, <<"IOdone", 0>>)
            /\ UNCHANGED <<cursor, fh, fileHandle, fileHandleEvents>>
       ELSE LET h == cursor
                invoke == /\ fh[h].awaiting
                          /\ fh[h].callback # "NULL"
                          /\ FileHandleEvents(fh, h, fdsets) # {}
            IN /\ cursor' = CursorBeforeCallback(fh, h)
               /\ fh' = [fh EXCEPT ![h].awaiting = AwaitingAfterDispatch]
               /\ IF invoke
                  THEN /\ pc' = IF fh[h].callback = "loopback" THEN "lbRecv" ELSE "fhCb"
                       /\ fileHandle' = h
                       /\ fileHandleEvents' = FileHandleEvents(fh, h, fdsets)
                       /\ iterLog' = Append(iterLog, <<"F", h>>)
                  ELSE UNCHANGED <<pc, fileHandle, fileHandleEvents, iterLog>>
    /\ UNCHANGED <<state, fatal, now, timers, timerCount, timerAddr, timerFate, expiredTimer, tnow, fhCount,
                   fdsets, timeoutAt, lbFd0, lbFd1, lbHandle, passEligible, stopLog>>
    /\ regFailed' = NoFailure
    /\ UNCHANGED <<lateHandles, otherVars>>

\* the file handle callback returns
FileHandleCallbackReturn ==
    /\ pc = "fhCb"
    /\ pc' = "io"
    /\ fileHandle' = 0
    /\ fileHandleEvents' = {}
    /\ UNCHANGED <<state, fatal, now, timers, timerCount, timerAddr, timerFate, expiredTimer, tnow, fh, fhCount,
                   cursor, fdsets, timeoutAt, lbFd0, lbFd1, lbHandle, iterLog, passEligible, stopLog>>
    /\ regFailed' = NoFailure
    /\ UNCHANGED <<lateHandles, otherVars>>

(***************************************************************************)
(* Loop lifecycle                                                          *)
(***************************************************************************)
\* HAPPlatformRunLoopCreate: opens the loopback pair and registers its handle
HAPPlatformRunLoopCreate(allocated) ==
    /\ UserCode
    /\ IF lbFd0 = NoFd /\ lbFd1 = NoFd
       THEN /\ fhCount < MaxFileHandles
            /\ lbFd0' = LoopbackFd0
            /\ lbFd1' = LoopbackFd1
            /\ IF allocated
               THEN /\ fhCount' = fhCount + 1
                    /\ fh' = LinkFileHandle(fh, fhCount + 1, LoopbackFd0, {"R"}, "loopback")
                    /\ lbHandle' = fhCount + 1
                    /\ state' = "Idle"
                    /\ regFailed' = NoFailure
                    /\ UNCHANGED <<pc, fatal>>
               ELSE \* the loopback handle cannot be registered: HAPFatalError
                    /\ regFailed' = RegisterFailed("HAPPlatformFileHandleRegister")
                    /\ Die("loopbackRegister")
                    /\ UNCHANGED <<fhCount, fh, lbHandle, state>>
       ELSE /\ Die("precondition")
            /\ regFailed' = NoFailure
            /\ UNCHANGED <<lbFd0, lbFd1, fhCount, fh, lbHandle, state>>
    /\ UNCHANGED <<now, timers, timerCount, timerAddr, timerFate, expiredTimer, tnow, cursor, fileHandle, fileHandleEvents, fdsets,
                   timeoutAt, iterLog, passEligible, stopLog>>
    /\ UNCHANGED <<lateHandles, otherVars>>

\* HAPPlatformRunLoopRelease
HAPPlatformRunLoopRelease ==
    /\ UserCode
    /\ lbFd0' = NoFd
    /\ lbFd1' = NoFd
    /\ IF lbHandle # 0
       THEN /\ cursor' = CursorAfterDeregister(fh, lbHandle, cursor)
            /\ fh' = UnlinkFileHandle(fh, lbHandle)
       ELSE UNCHANGED <<cursor, fh>>
    /\ lbHandle' = 0
    /\ state' = "Idle"
    /\ UNCHANGED <<pc, fatal, now, timers, timerCount, timerAddr, timerFate, expiredTimer, tnow, fhCount, fileHandle, fileHandleEvents,
                   fdsets, timeoutAt, iterLog, passEligible, stopLog>>
    /\ regFailed' = NoFailure
    /\ UNCHANGED <<lateHandles, otherVars>>

\* a faulty variant: Stop sets Stopping whatever the state
StateAfterStopUnconditional(s) == "Stopping"

\* HAPPlatformRunLoopStop: the state it leaves
StateAfterStop(s) == IF s = "Running" THEN "Stopping" ELSE s

HAPPlatformRunLoopStop ==
    /\ UserCode
    /\ Len(stopLog) < MaxStops
    /\ stopLog' = Append(stopLog, state)
    /\ state' = StateAfterStop(state)
    /\ iterLog' = IF state' # state THEN Append(iterLog, <<"Stop", 0>>) ELSE iterLog
    /\ UNCHANGED <<pc, fatal, now, timers, timerCount, timerAddr, timerFate, expiredTimer, tnow, fh, fhCount, cursor,
                   fileHandle, fileHandleEvents, fdsets, timeoutAt, lbFd0, lbFd1, lbHandle, passEligible>>
    /\ regFailed' = NoFailure
    /\ UNCHANGED <<lateHandles, otherVars>>

\* HAPPlatformRunLoopStop called on the loop thread while it waits in select,
\* by the handler of the signal that interrupts the wait
StopInSignalHandler ==
    /\ pc = "select"
    /\ Len(stopLog) < MaxStops
    /\ stopLog' = Append(stopLog, state)
    /\ state' = StateAfterStop(state)
    /\ iterLog' = IF state' # state THEN Append(iterLog, <<"Stop", 0>>) ELSE iterLog
    /\ UNCHANGED <<pc, fatal, now, timers, timerCount, timerAddr, timerFate, expiredTimer, tnow, fh, fhCount, cursor,
                   fileHandle, fileHandleEvents, fdsets, timeoutAt, lbFd0, lbFd1, lbHandle, passEligible>>
    /\ regFailed' = NoFailure
    /\ UNCHANGED <<lateHandles, otherVars>>

\* HAPPlatformRunLoopRun: entry. A call from a callback finds the state checked by
\* the precondition; the nested loop of a call made from a callback after Release
\* is outside the model.
HAPPlatformRunLoopRun ==
    /\ UserCode
    /\ IF state = "Idle"
       THEN /\ pc = "out"
            /\ state' = "Running"
            /\ pc' = "build"
            /\ iterLog' = <<>>
            /\ UNCHANGED fatal
       ELSE /\ Die("precondition")
            /\ UNCHANGED <<state, iterLog>>
    /\ UNCHANGED <<now, timers, timerCount, timerAddr, timerFate, expiredTimer, tnow, fh, fhCount, cursor, fileHandle, fileHandleEvents,
                   fdsets, timeoutAt, lbFd0, lbFd1, lbHandle, passEligible, stopLog>>
    /\ regFailed' = NoFailure
    /\ UNCHANGED <<lateHandles, otherVars>>

\* HAPPlatformRunLoopRun: isAwaitingEvents of a handle after the interest sets are built
AwaitingAfterBuild(r) == r.fd # NoFd /\ r.interests # {}

\* HAPPlatformRunLoopRun: the fd_sets built from the file handle list
BuiltSets(f) ==
    [d \in AllFDs |-> UNION {f[h].interests : h \in {g \in Registered(f) : f[g].fd = d}}]

\* HAPPlatformRunLoopRun: nextDeadline
NextDeadline(ts) == IF ts # <<>> THEN Head(ts).deadline ELSE 0

\* HAPPlatformRunLoopRun: the time at which the wait times out, NULL for an unbounded wait
TimeoutOf(ts, t) ==
    LET nextDeadline == NextDeadline(ts)
    IN IF nextDeadline # 0
       THEN t + (IF nextDeadline > t THEN nextDeadline - t ELSE 0)
       ELSE NULL

\* HAPPlatformRunLoopRun: top of the do-while body up to the call of select
RunBuildInterestSets ==
    /\ pc = "build"
    /\ pc' = "select"
    /\ fh' = [h \in DOMAIN fh |->
                IF h \in Registered(fh)
                THEN [fh[h] EXCEPT !.awaiting = AwaitingAfterBuild(fh[h])]
                ELSE fh[h]]
    /\ fdsets' = BuiltSets(fh)
    /\ timeoutAt' = TimeoutOf(timers, now)
    /\ iterLog' = <<>>
    /\ UNCHANGED <<state, fatal, now, timers, timerCount, timerAddr, timerFate, expiredTimer, tnow, fhCount, cursor,
                   fileHandle, fileHandleEvents, lbFd0, lbFd1, lbHandle, passEligible, stopLog>>
    /\ regFailed' = NoFailure
    /\ UNCHANGED <<lateHandles, otherVars>>

\* results select may leave in the fd_sets: a subset of what was asked for; the
\* loopback descriptor is readable when a datagram is queued (and, if the
\* platform wakes spuriously, also when none is); an empty result needs the
\* timeout to have expired
SelectResults(spurious) ==
    {r \in [AllFDs -> SUBSET Events] :
        /\ \A d \in AllFDs : r[d] \subseteq fdsets[d]
        /\ channel # <<>> => r[LoopbackFd0] = fdsets[LoopbackFd0] \cap {"R"}
        /\ (channel = <<>> /\ ~spurious) => r[LoopbackFd0] = {}
        /\ (\A d \in AllFDs : r[d] = {}) => (timeoutAt # NULL /\ now >= timeoutAt)}

\* select returns e >= 0; ProcessExpiredTimers reads the clock
RunSelectReturns(spurious) ==
    /\ pc = "select"
    /\ \E r \in SelectResults(spurious) : fdsets' = r
    /\ tnow' = now
    /\ pc' = "timers"
    /\ UNCHANGED <<state, fatal, now, timers, timerCount, timerAddr, timerFate, expiredTimer, fh, fhCount, cursor,
                   fileHandle, fileHandleEvents, timeoutAt, lbFd0, lbFd1, lbHandle, iterLog, passEligible,
                   stopLog>>
    /\ regFailed' = NoFailure
    /\ UNCHANGED <<lateHandles, otherVars>>

\* a faulty variant: after an interrupt the loop body goes on with the timers
AfterInterruptGoesOn == "timers"

\* HAPPlatformRunLoopRun: 'continue' in the body of the do-while statement
\* transfers control to the evaluation of the while condition
AfterInterrupt == "cond"

\* select returns -1 with errno EINTR: continue
RunSelectInterrupted ==
    /\ pc = "select"
    /\ pc' = AfterInterrupt
    /\ iterLog' = Append(iterLog, <<"EINTR", 0>>)
    /\ UNCHANGED <<state, fatal, now, timers, timerCount, timerAddr, timerFate, expiredTimer, tnow, fh, fhCount,
                   cursor, fileHandle, fileHandleEvents, fdsets, timeoutAt, lbFd0, lbFd1, lbHandle, passEligible, stopLog>>
    /\ regFailed' = NoFailure
    /\ UNCHANGED <<lateHandles, otherVars>>

\* select returns -1 with another errno: HAPFatalError
RunSelectFails ==
    /\ pc = "select"
    /\ Die("select")
    /\ UNCHANGED <<state, now, timers, timerCount, timerAddr, timerFate, expiredTimer, tnow, fh, fhCount, cursor,
                   fileHandle, fileHandleEvents, fdsets, timeoutAt, lbFd0, lbFd1, lbHandle, iterLog, passEligible, stopLog>>
    /\ regFailed' = NoFailure
    /\ UNCHANGED <<lateHandles, otherVars>>

\* a faulty variant: the loop goes on until the state is Idle
RunContinuesUntilIdle(s) == s # "Idle"

\* HAPPlatformRunLoopRun: the while condition
RunContinues(s) == s = "Running"

\* HAPPlatformRunLoopRun: the while condition and the exit of the loop; the
\* locals of the loop body (fd_sets, timeout) go out of scope
RunLoopCondition ==
    /\ pc = "cond"
    /\ IF RunContinues(state)
       THEN /\ pc' = "build"
            /\ UNCHANGED <<state, fatal, stopLog>>
       ELSE IF state = "Stopping"
            THEN /\ state' = "Idle"
                 /\ pc' = "out"
                 /\ stopLog' = <<>>
                 /\ UNCHANGED fatal
            ELSE /\ Die("assert")
                 /\ UNCHANGED <<state, stopLog>>
    /\ fdsets' = [d \in AllFDs |-> {}]
    /\ timeoutAt' = NULL
    /\ tnow' = 0
    /\ passEligible' = {}
    /\ lateHandles' = {}
    /\ UNCHANGED <<now, timers, timerCount, timerAddr, timerFate, expiredTimer, fh, fhCount, cursor, fileHandle, fileHandleEvents,
                   lbFd0, lbFd1, lbHandle, iterLog>>
    /\ regFailed' = NoFailure
    /\ UNCHANGED otherVars

\* the clock advances while the loop waits or a caller's code runs
Tick ==
    /\ pc \in {"out", "select", "timerCb", "fhCb"}
    /\ now < MaxTime
    /\ now' = now + 1
    /\ UNCHANGED <<state, pc, fatal, timers, timerCount, timerAddr, timerFate, expiredTimer, tnow, fh, fhCount, cursor,
                   fileHandle, fileHandleEvents, fdsets, timeoutAt, lbFd0, lbFd1, lbHandle, iterLog, passEligible, stopLog>>
    /\ regFailed' = NoFailure
    /\ UNCHANGED <<lateHandles, otherVars>>

(***************************************************************************)
(* Loopback channel                                                        *)
(***************************************************************************)
\* context sizes the threads pass (256 fails the size check)
ContextSizes == {0, 1, 255, 256}

\* the address of the callback function that thread t schedules
CallbackAddress(t) == 1074593792 + 4 * t

\* the context bytes that thread t passes
ContextOf(t, n) == [i \in 1..n |-> (16 * t + i) % 256]

RECURSIVE Pow256(_)
Pow256(k) == IF k = 0 THEN 1 ELSE 256 * Pow256(k - 1)

\* HAPRawBufferCopyBytes(&bytes[0], &callback, sizeof callback): little-endian
PointerBytes(c) == [i \in 1..CallbackPtrSize |-> (c \div Pow256(i - 1)) % 256]

RECURSIVE PointerOf(_)
\* HAPRawBufferCopyBytes(&callback, &runLoop.loopbackBytes[0], sizeof callback)
PointerOf(bytes) == IF bytes = <<>> THEN 0 ELSE Head(bytes) + 256 * PointerOf(Tail(bytes))

\* HAPPlatformRunLoopScheduleCallback: the serialised frame
Frame(c, n, context) == PointerBytes(c) \o <<n % 256>> \o context

\* a faulty variant: a context of UINT8_MAX + 1 bytes passes the checks
SizeErrorLax(n) == n > Uint8Max + 1 \/ n + 1 + CallbackPtrSize > PipeBuf

\* HAPPlatformRunLoopScheduleCallback: the two size checks
SizeError(n) == n > Uint8Max \/ n + 1 + CallbackPtrSize > PipeBuf

\* HAPPlatformRunLoopScheduleCallback called by thread t with a context of n
\* bytes; sendOk is the outcome of send() on the non-blocking sender socket
HAPPlatformRunLoopScheduleCallback(t, n, sendOk) ==
    /\ thread[t].pc = "ready"
    /\ IF SizeError(n)
       THEN /\ thread' = [thread EXCEPT ![t] = [pc |-> "done", size |-> n, err |-> "OutOfResources"]]
            /\ UNCHANGED channel
       ELSE IF sendOk /\ lbFd1 # NoFd
            THEN /\ channel' = Append(channel, Frame(CallbackAddress(t), n, ContextOf(t, n)))
                 /\ thread' = [thread EXCEPT ![t] = [pc |-> "done", size |-> n, err |-> "None"]]
            ELSE /\ thread' = [thread EXCEPT ![t] = [pc |-> "done", size |-> n, err |-> "Unknown"]]
                 /\ UNCHANGED channel
    /\ UNCHANGED <<loopbackBytes, contextSize, lbInvoked>>
    /\ UNCHANGED <<loopVars, mqVars, sockVars, miioVars>>

\* a faulty variant: one byte less than asked for is read
ReceivedShort(dgram, room) == SubSeq(dgram, 1, Min(Len(dgram), room) - 1)

\* recv() on the datagram socket: the bytes of the oldest datagram that fit
Received(dgram, room) == SubSeq(dgram, 1, Min(Len(dgram), room))

\* HandleLoopbackFileHandleCallback: entry assertion and recv() with its outcomes
LoopbackRecv ==
    /\ pc = "lbRecv"
    /\ IF ~(Len(loopbackBytes) < LoopbackBufSize)
       THEN /\ Die("assert")
            /\ UNCHANGED <<channel, loopbackBytes, fileHandle, fileHandleEvents>>
       ELSE IF channel # <<>>
            THEN /\ loopbackBytes' = loopbackBytes \o
                        Received(Head(channel), LoopbackBufSize - Len(loopbackBytes))
                 /\ channel' = Tail(channel)
                 /\ pc' = "lbLoop"
                 /\ UNCHANGED <<fatal, fileHandle, fileHandleEvents>>
            ELSE \* EAGAIN: return
                 /\ pc' = "io"
                 /\ fileHandle' = 0
                 /\ fileHandleEvents' = {}
                 /\ UNCHANGED <<fatal, channel, loopbackBytes>>
    /\ UNCHANGED <<state, now, timers, timerCount, timerAddr, timerFate, expiredTimer, tnow, fh, fhCount, cursor,
                   fdsets, timeoutAt, lbFd0, lbFd1, lbHandle, iterLog, passEligible, stopLog>>
    /\ UNCHANGED <<contextSize, thread, lbInvoked>>
    /\ regFailed' = NoFailure
    /\ UNCHANGED <<lateHandles, mqVars, sockVars, miioVars>>

\* the results of recv() that are neither data nor EINTR nor EAGAIN: -1 with
\* another errno, and 0
RecvFailures == {-1, 0}

\* a faulty variant: only a negative result is fatal
RecvIsFatalWhenNegative(n) == n < 0

\* HandleLoopbackFileHandleCallback: the tests 'n < 0' and 'n == 0'
RecvIsFatal(n) == n < 0 \/ n = 0

\* HandleLoopbackFileHandleCallback: recv() returns n, one of RecvFailures
LoopbackRecvFails(n) ==
    /\ pc = "lbRecv"
    /\ IF RecvIsFatal(n)
       THEN Die(IF n < 0 THEN "loopbackRead" ELSE "loopbackNoData")
       ELSE \* n bytes were read; the frames in the buffer are looked at
            /\ pc' = "lbLoop"
            /\ UNCHANGED fatal
    /\ UNCHANGED <<state, now, timers, timerCount, timerAddr, timerFate, expiredTimer, tnow, fh, fhCount, cursor,
                   fileHandle, fileHandleEvents, fdsets, timeoutAt, lbFd0, lbFd1, lbHandle, iterLog, passEligible,
                   stopLog>>
    /\ regFailed' = NoFailure
    /\ UNCHANGED <<lateHandles, otherVars>>

\* a faulty variant: the size is read from the last byte of the callback pointer
ContextSizeOfPointerByte(bytes) == bytes[CallbackPtrSize]

\* the context size read from the char buffer (char is unsigned on the ESP targets)
ContextSizeOf(bytes) == bytes[CallbackPtrSize + 1]

\* a faulty variant: the copy starts one byte early
CompactOffByOne(bytes, k) == SubSeq(bytes, k, Len(bytes))

\* the buffer after HAPRawBufferCopyBytes moved the bytes behind the first k to the front
Compact(bytes, k) == SubSeq(bytes, k + 1, Len(bytes))

\* HandleLoopbackFileHandleCallback: one turn of the for loop up to the callback invocation
LoopbackDispatch ==
    /\ pc = "lbLoop"
    /\ IF \/ Len(loopbackBytes) < CallbackPtrSize + 1
          \/ Len(loopbackBytes) < CallbackPtrSize + 1 + ContextSizeOf(loopbackBytes)
       THEN /\ pc' = "io"
            /\ fileHandle' = 0
            /\ fileHandleEvents' = {}
            /\ UNCHANGED <<loopbackBytes, contextSize, lbInvoked>>
       ELSE LET csize == ContextSizeOf(loopbackBytes)
                callback == PointerOf(SubSeq(loopbackBytes, 1, CallbackPtrSize))
                rest == Compact(loopbackBytes, CallbackPtrSize + 1)
            IN /\ loopbackBytes' = rest
               /\ contextSize' = csize
               /\ lbInvoked' = Append(lbInvoked,
                                 [callback |-> callback, size |-> csize,
                                  context |-> SubSeq(rest, 1, csize)])
               /\ pc' = "lbCb"
               /\ UNCHANGED <<fileHandle, fileHandleEvents>>
    /\ UNCHANGED <<state, fatal, now, timers, timerCount, timerAddr, timerFate, expiredTimer, tnow, fh, fhCount,
                   cursor, fdsets, timeoutAt, lbFd0, lbFd1, lbHandle, iterLog, passEligible,
                   stopLog>>
    /\ UNCHANGED <<channel, thread>>
    /\ regFailed' = NoFailure
    /\ UNCHANGED <<lateHandles, mqVars, sockVars, miioVars>>

\* the scheduled callback returns; its context is removed from the buffer
ScheduledCallbackReturn ==
    /\ pc = "lbCb"
    /\ pc' = "lbLoop"
    /\ loopbackBytes' = Compact(loopbackBytes, contextSize)
    /\ contextSize' = 0
    /\ UNCHANGED <<state, fatal, now, timers, timerCount, timerAddr, timerFate, expiredTimer, tnow, fh, fhCount,
                   cursor, fileHandle, fileHandleEvents, fdsets, timeoutAt, lbFd0, lbFd1, lbHandle, iterLog,
                   passEligible, stopLog>>
    /\ UNCHANGED <<channel, thread, lbInvoked>>
    /\ regFailed' = NoFailure
    /\ UNCHANGED <<lateHandles, mqVars, sockVars, miioVars>>

(***************************************************************************)
(* Message queue (lmqlib.c)                                                *)
(***************************************************************************)
Cos == 1..NCos

\* the Lua value nil inside a tuple of values
NilValue == 0
\* an empty slot of the user value, the absent field "wait", no values returned
NoTuple == <<-1>>
NoWait == <<-1>>

\* the argument tuples that callers send
Messages == {<<2, 1>>, <<1, NilValue>>}

\* lmq_create(size)
QueueInit(capacity) ==
    /\ first = 1
    /\ last = 1
    /\ size = capacity
    /\ buf = [k \in 1..(capacity + 1) |-> NoTuple]
    /\ wait = NoWait
    /\ co = [c \in Cos |-> [st |-> "ready", ret |-> NoTuple, res |-> "none"]]
    /\ running = 0
    /\ sends = <<>>
    /\ waitOrder = <<>>

\* lmq_size
lmq_size(f, l, sz) == IF f > l THEN sz - f + l ELSE l - f

\* the index after i in the ring: obj->last++ (obj->first++) and the wrap
RingNext(i, sz) == IF i + 1 > sz + 1 THEN 1 ELSE i + 1

\* the Lua stack of lmq_obj_send when the waiters are resumed: the queue, the
\* arguments, the user value and the wait table
SendStack(msg) == <<-10>> \o msg \o <<-11, -12>>

\* the values moved if the copies were taken from index 1 on, the queue first
ResumeArgsFromBottom(msg) ==
    LET narg == Len(msg)
        pushed == SendStack(msg) \o [i \in 1..narg |-> SendStack(msg)[i]]
    IN SubSeq(pushed, Len(pushed) - narg + 1, Len(pushed))

\* lmq_obj_send: lua_pushvalue(L, i) for i = 2 .. 1 + narg, then lua_xmove(L, co, narg)
ResumeArgs(msg) ==
    LET narg == Len(msg)
        pushed == SendStack(msg) \o [i \in 1..narg |-> SendStack(msg)[1 + i]]
    IN SubSeq(pushed, Len(pushed) - narg + 1, Len(pushed))

\* lmq_obj_send: the table built by lua_seti(L, 3, i) for i = narg .. 1 from the
\* stack <<queue, user value, table, arguments>>
StoredTuple(msg) ==
    LET stack == <<-10, -11, -12>> \o msg
    IN [i \in 1..Len(msg) |-> stack[3 + i]]

\* luaL_len of a stored tuple: a border of the table
Borders(t) ==
    {k \in 0..Len(t) :
        /\ (k = 0 \/ t[k] # NilValue)
        /\ (k = Len(t) \/ t[k + 1] = NilValue)}

\* the wait table if the caller were put in front of the earlier waiters
WaitPrepend(w, c) == IF w = NoWait THEN <<c>> ELSE <<c>> \o w

\* lmq_obj_recv: the wait table after the caller was added
WaitAppend(w, c) == IF w = NoWait THEN <<c>> ELSE Append(w, c)

\* the tuples stored in the user value
Buffered == {k \in DOMAIN buf : buf[k] # NoTuple}

\* the environment resumes or starts a continuation that is not waiting in recv
CoStart(c) ==
    /\ running = 0
    /\ sends = <<>>
    /\ co[c].st = "ready"
    /\ running' = c
    /\ co' = [co EXCEPT ![c].st = "running"]
    /\ UNCHANGED <<first, last, size, buf, wait, sends, waitOrder>>
    /\ UNCHANGED <<loopVars, lbVars, sockVars, miioVars>>

\* the running continuation finishes or yields for another reason
CoPause ==
    /\ running # 0
    /\ co' = [co EXCEPT ![running] = [st |-> "ready", ret |-> NoTuple, res |-> "none"]]
    /\ running' = 0
    /\ UNCHANGED <<first, last, size, buf, wait, sends, waitOrder>>
    /\ UNCHANGED <<loopVars, lbVars, sockVars, miioVars>>

\* a faulty variant: send leaves the wait table in the queue object
WaitAfterDetachKept(w) == w

\* lmq_obj_send: `que.wait = nil` once the wait table was fetched
WaitAfterDetach(w) == NoWait

\* lmq_obj_send up to the first resume, or to its return
lmq_obj_send(msg) ==
    /\ running # 0
    /\ IF wait # NoWait
       THEN /\ wait' = WaitAfterDetach(wait)
            /\ sends' = Append(sends, [sender |-> running, tbl |-> wait, i |-> 1, msg |-> msg])
            /\ co' = [co EXCEPT ![running] = [st |-> "normal", ret |-> NoTuple, res |-> "none"]]
            /\ running' = 0
            /\ UNCHANGED <<first, last, buf>>
       ELSE IF lmq_size(first, last, size) = size
            THEN /\ co' = [co EXCEPT ![running].res = "full"]
                 /\ UNCHANGED <<first, last, buf, wait, sends, running>>
            ELSE /\ buf' = [buf EXCEPT ![last] = StoredTuple(msg)]
                 /\ last' = RingNext(last, size)
                 /\ co' = [co EXCEPT ![running].res = "ok"]
                 /\ UNCHANGED <<first, wait, sends, running>>
    /\ UNCHANGED <<size, waitOrder>>
    /\ UNCHANGED <<loopVars, lbVars, sockVars, miioVars>>

\* lmq_obj_send: one turn of the loop over the waiters (lc_resumethread), or the
\* return of send when the loop has ended
SendResumeNext ==
    /\ running = 0
    /\ sends # <<>>
    /\ LET n == Len(sends)
           f == sends[n]
       IN IF f.i <= Len(f.tbl)
          THEN LET c == f.tbl[f.i]
               IN /\ co' = [co EXCEPT ![c].st = "running", ![c].ret = ResumeArgs(f.msg)]
                  /\ running' = c
                  /\ sends' = [sends EXCEPT ![n].i = f.i + 1]
                  /\ waitOrder' = SelectSeq(waitOrder, LAMBDA x : x # c)
          ELSE /\ co' = [co EXCEPT ![f.sender].st = "running", ![f.sender].res = "ok"]
               /\ running' = f.sender
               /\ sends' = SubSeq(sends, 1, n - 1)
               /\ UNCHANGED waitOrder
    /\ UNCHANGED <<first, last, size, buf, wait>>
    /\ UNCHANGED <<loopVars, lbVars, sockVars, miioVars>>

\* lmq_obj_recv
lmq_obj_recv ==
    /\ running # 0
    /\ IF last = first
       THEN /\ wait' = WaitAppend(wait, running)
            /\ co' = [co EXCEPT ![running] = [st |-> "waiting", ret |-> NoTuple, res |-> "none"]]
            /\ waitOrder' = Append(waitOrder, running)
            /\ running' = 0
            /\ UNCHANGED <<first, buf>>
       ELSE /\ buf[first] # NoTuple
            /\ \E nargs \in Borders(buf[first]) :
                  co' = [co EXCEPT ![running].ret = SubSeq(buf[first], 1, nargs)]
            /\ buf' = [buf EXCEPT ![first] = NoTuple]
            /\ first' = RingNext(first, size)
            /\ UNCHANGED <<wait, waitOrder, running>>
    /\ UNCHANGED <<last, size, sends>>
    /\ UNCHANGED <<loopVars, lbVars, sockVars, miioVars>>

(***************************************************************************)
(* The socket binding: a primitive asks the platform socket for the        *)
(* operation; a result other than "in progress" ends the call at once,     *)
(* "in progress" suspends the calling continuation with a continuation      *)
(* function, and the completion callback resumes it with the result.        *)
(***************************************************************************)
\* the continuations that call socket primitives
SockCos == {1}

\* the socket objects (lsocket_obj) the script has created
SockObjs == {1}

\* pal_socket_err: the two values the binding names, and one of the values that
\* take the default branch of every switch
PalSocketErr == {"OK", "IN_PROGRESS", "TIMEOUT"}

\* the value of lua_KContext that is a pointer to the socket object
ObjExtra == "obj"

\* (lua_KContext)flag, and (bool)extra
KContext(flag) == IF flag THEN "true" ELSE "false"
AsBool(extra) == extra # "false"

\* values on the stack of a continuation: a kind and, for strings of bytes
\* and byte counts, a length
Val(t) == [t |-> t, n |-> 0]
IntVal(n) == [t |-> "int", n |-> n]
DataVal(n) == [t |-> "data", n |-> n]

\* what a slot below the arguments of the running function holds
Junk == Val("junk")

\* no platform socket function was called by the step
NoCall == [fn |-> "none", o |-> 0, err |-> "none"]
\* the step called platform function fn on the socket of object o and got err
PalCall(fn, o, err) == [fn |-> fn, o |-> o, err |-> err]

\* a request held by the platform, which keeps one per operation of a socket:
\* the operation, the socket object and the continuation given as 'arg'
Reg(op, o, c) == [op |-> op, o |-> o, c |-> c]
NoReg == Reg("none", 0, 0)

\* the requests the platform can be given
Requests ==
    {Reg(op, o, c) : op \in {"accept", "connect", "send", "sendall", "sendto",
                             "recv", "recvfrom"},
                    o \in SockObjs, c \in SockCos}
    \cup {Reg("resolve", 0, c) : c \in SockCos}

SocketInit ==
    /\ sock = [c \in SockCos |-> [st |-> "script", op |-> "none", on |-> 0, k |-> "none",
                                  extra |-> ObjExtra, stack |-> <<>>, ret |-> <<>>,
                                  error |-> "none", delivered |-> <<>>, sent |-> 0]]
    /\ sockObj = [o \in SockObjs |-> [socket |-> o, released |-> 0]]
    /\ palCall = NoCall
    /\ apiCheck = FALSE
    /\ pending = {}
    /\ cbReg = NoReg

\* the script calls primitive op of socket object o with the arguments args
SockBegin(s, op, o, args) ==
    [s EXCEPT !.op = op, !.on = o, !.k = "none", !.extra = ObjExtra,
              !.stack = <<Val("Socket*")>> \o args, !.ret = <<>>,
              !.error = "none", !.delivered = <<>>, !.sent = 0]

\* the n values on top of the stack; a slot the function does not own is junk
TopValues(stack, n) ==
    [i \in 1..n |-> IF Len(stack) - n + i >= 1 THEN stack[Len(stack) - n + i] ELSE Junk]

\* "return n": the primitive returns the n values on top of its stack to the
\* script. Returning more values than the stack holds breaks the rules of the
\* Lua API: a build with LUA_USE_APICHECK aborts, any other build hands over
\* what lies below.
SockReturn(s, n) ==
    IF n > Len(s.stack) /\ apiCheck
    THEN [s EXCEPT !.st = "abort", !.k = "none", !.stack = <<>>]
    ELSE [s EXCEPT !.st = "script", !.k = "none", !.ret = TopValues(s.stack, n),
                   !.stack = <<>>]

\* lua_yieldk(L, 0, extra, k): the continuation suspends; k runs when it is resumed
SockYield(s, extra, k) == [s EXCEPT !.st = "suspended", !.k = k, !.extra = extra]

\* luaL_error: an error is raised in the script
SockRaise(s, err) == [s EXCEPT !.st = "raised", !.k = "none", !.error = err, !.stack = <<>>]

\* lua_pop(L, n)
LuaPop(stack, n) == SubSeq(stack, 1, Len(stack) - n)

\* lua_insert(L, -3): the top value moves below the two values under it
LuaInsert3(stack) ==
    LET n == Len(stack)
    IN  SubSeq(stack, 1, n - 3) \o <<stack[n]>> \o SubSeq(stack, n - 2, n - 1)

\* lua_tointeger(L, -i) read as a pal_socket_err. A slot that holds another
\* value, or lies below the stack of the function, gives a number that is
\* none of the codes the binding names.
ErrAt(stack, i) == IF Len(stack) >= i THEN stack[Len(stack) + 1 - i].t ELSE Junk.t

\* finshaccept
finshaccept(s, extra) ==
    IF ErrAt(s.stack, 4) = "OK"
    THEN SockReturn([s EXCEPT !.stack = LuaInsert3(Append(@, Val("Socket*")))], 3)
    ELSE SockRaise(s, ErrAt(s.stack, 4))

\* finshconnect
finshconnect(s, extra) ==
    LET err == ErrAt(s.stack, 1)
    IN  CASE err = "OK" -> SockReturn(s, 0)
          [] err = "IN_PROGRESS" -> SockYield(s, extra, "finshconnect")
          [] OTHER -> SockRaise(s, err)

\* a faulty variant: the byte count is returned by sendall too
finshsendReturnsCount(s, extra) ==
    LET err == ErrAt(s.stack, 2)
        t == [s EXCEPT !.sent = s.stack[Len(s.stack)].n]
    IN  CASE err = "OK" -> SockReturn(t, 1)
          [] err = "IN_PROGRESS" -> SockYield(t, extra, "finshsend")
          [] OTHER -> SockRaise(t, err)

\* finshsend: extra is the flag 'all'; the field 'sent' keeps the value that
\* was in the slot of sent_len
finshsend(s, extra) ==
    LET err == ErrAt(s.stack, 2)
        t == [s EXCEPT !.sent = s.stack[Len(s.stack)].n]
    IN  CASE err = "OK" -> SockReturn(t, IF AsBool(extra) THEN 0 ELSE 1)
          [] err = "IN_PROGRESS" -> SockYield(t, extra, "finshsend")
          [] OTHER -> SockRaise(t, err)

\* finshrecv: extra is the flag 'isrecvfrom'
finshrecv(s, extra) ==
    LET err == ErrAt(s.stack, 1)
    IN  CASE err = "OK" ->
                 IF AsBool(extra) THEN SockReturn([s EXCEPT !.stack = LuaPop(@, 1)], 3)
                          ELSE SockReturn([s EXCEPT !.stack = LuaPop(LuaPop(@, 1), 2)], 1)
          [] err = "IN_PROGRESS" -> SockYield(s, extra, "finshrecv")
          [] OTHER -> SockRaise(s, err)

\* the process is alive
SockAlive == \A c \in SockCos : sock[c].st # "abort"

\* the script is running in continuation c and may call a primitive; the
\* platform has room for the request
SockCanCall(c) ==
    /\ SockAlive
    /\ sock[c].st \in {"script", "raised"}
    /\ Cardinality(pending) < MaxPending

\* a faulty variant: the object is handed out whether or not it was destroyed
lsocket_obj_getUnchecked(o) == TRUE

\* lsocket_obj_get: the object still has its platform socket
lsocket_obj_get(o) == sockObj[o].socket # NULL

\* a method of socket object o: lsocket_obj_get and the checks of the
\* arguments come first, then the platform call fn, after which the
\* continuation is as in 'after'. The result is the continuation and the
\* platform call made.
SockMethod(s, o, valid, fn, err, after) ==
    IF ~lsocket_obj_get(o) THEN <<SockRaise(s, "destroyed"), NoCall>>
    ELSE IF ~valid THEN <<SockRaise(s, "argument"), NoCall>>
    ELSE <<after, PalCall(fn, o, err)>>

\* the platform keeps the request of a call that suspended: it was given the
\* callback and the continuation
SockRegistered(s, c) ==
    IF s.st = "suspended"
    THEN pending \cup {Reg(s.op, s.on, c)}
    ELSE pending

\* pal_socket_destroy: the requests on the socket are dropped with it
Cancelled(o) == {r \in pending : r.o # o}

\* the methods that raise unless the platform call returns PAL_SOCKET_ERR_OK
SockConfigure(s, err) == IF err # "OK" THEN SockRaise(s, err) ELSE SockReturn(s, 0)

\* lsocket_obj_settimeout
lsocket_obj_settimeout(c, o, valid) ==
    /\ SockCanCall(c)
    /\ LET s == SockBegin(sock[c], "settimeout", o, <<Val("ms")>>)
           r == SockMethod(s, o, valid, "pal_socket_set_timeout", "none", SockReturn(s, 0))
       IN  /\ sock' = [sock EXCEPT ![c] = r[1]]
           /\ palCall' = r[2]
           /\ pending' = SockRegistered(r[1], c)
    /\ cbReg' = NoReg
    /\ UNCHANGED <<sockObj, apiCheck, loopVars, lbVars, mqVars, miioVars>>

\* lsocket_obj_enablebroadcast
lsocket_obj_enablebroadcast(c, o, err) ==
    /\ SockCanCall(c)
    /\ LET s == SockBegin(sock[c], "enablebroadcast", o, <<>>)
           r == SockMethod(s, o, TRUE, "pal_socket_enable_broadcast", err, SockConfigure(s, err))
       IN  /\ sock' = [sock EXCEPT ![c] = r[1]]
           /\ palCall' = r[2]
           /\ pending' = SockRegistered(r[1], c)
    /\ cbReg' = NoReg
    /\ UNCHANGED <<sockObj, apiCheck, loopVars, lbVars, mqVars, miioVars>>

\* lsocket_obj_bind
lsocket_obj_bind(c, o, valid, err) ==
    /\ SockCanCall(c)
    /\ LET s == SockBegin(sock[c], "bind", o, <<Val("addr"), Val("port")>>)
           r == SockMethod(s, o, valid, "pal_socket_bind", err, SockConfigure(s, err))
       IN  /\ sock' = [sock EXCEPT ![c] = r[1]]
           /\ palCall' = r[2]
           /\ pending' = SockRegistered(r[1], c)
    /\ cbReg' = NoReg
    /\ UNCHANGED <<sockObj, apiCheck, loopVars, lbVars, mqVars, miioVars>>

\* lsocket_obj_listen
lsocket_obj_listen(c, o, err) ==
    /\ SockCanCall(c)
    /\ LET s == SockBegin(sock[c], "listen", o, <<Val("backlog")>>)
           r == SockMethod(s, o, TRUE, "pal_socket_listen", err, SockConfigure(s, err))
       IN  /\ sock' = [sock EXCEPT ![c] = r[1]]
           /\ palCall' = r[2]
           /\ pending' = SockRegistered(r[1], c)
    /\ cbReg' = NoReg
    /\ UNCHANGED <<sockObj, apiCheck, loopVars, lbVars, mqVars, miioVars>>

\* lsocket_obj_accept: err is the result of pal_socket_accept
lsocket_obj_accept(c, o, err) ==
    /\ SockCanCall(c)
    /\ LET s == SockBegin(sock[c], "accept", o, <<>>)
           r == SockMethod(s, o, TRUE, "pal_socket_accept", err,
                    CASE err = "OK" ->
                             SockReturn([s EXCEPT !.stack =
                                 @ \o <<Val("Socket*"), Val("addr"), Val("port")>>], 3)
                      [] err = "IN_PROGRESS" -> SockYield(s, ObjExtra, "finshaccept")
                      [] OTHER -> SockRaise(s, err))
       IN  /\ sock' = [sock EXCEPT ![c] = r[1]]
           /\ palCall' = r[2]
           /\ pending' = SockRegistered(r[1], c)
    /\ cbReg' = NoReg
    /\ UNCHANGED <<sockObj, apiCheck, loopVars, lbVars, mqVars, miioVars>>

\* lsocket_obj_connect: err is the result of pal_socket_connect
lsocket_obj_connect(c, o, valid, err) ==
    /\ SockCanCall(c)
    /\ LET s == SockBegin(sock[c], "connect", o, <<Val("addr"), Val("port")>>)
           r == SockMethod(s, o, valid, "pal_socket_connect", err,
                    finshconnect([s EXCEPT !.stack = Append(@, Val(err))], ObjExtra))
       IN  /\ sock' = [sock EXCEPT ![c] = r[1]]
           /\ palCall' = r[2]
           /\ pending' = SockRegistered(r[1], c)
    /\ cbReg' = NoReg
    /\ UNCHANGED <<sockObj, apiCheck, loopVars, lbVars, mqVars, miioVars>>

\* the byte counts pal_socket_send and the sent callback may report with err
\* for a buffer of len bytes: asked to send all, the platform socket reports
\* success once the whole buffer is flushed, otherwise after one write
SentLens(len, all, err) ==
    IF err # "OK" THEN {0} ELSE IF all THEN {len} ELSE 1..len

\* lsocket_obj_sent_int: err and n are the result of pal_socket_send and the
\* value it leaves in sent_len
lsocket_obj_sent_int(s, o, all, err, n) ==
    SockMethod(s, o, TRUE, "pal_socket_send", err,
               finshsend([s EXCEPT !.stack = @ \o <<Val(err), IntVal(n)>>],
                         KContext(all)))

\* lsocket_obj_send
lsocket_obj_send(c, o, len, err, n) ==
    /\ SockCanCall(c)
    /\ LET s == SockBegin(sock[c], "send", o, <<DataVal(len)>>)
           r == lsocket_obj_sent_int(s, o, FALSE, err, n)
       IN  /\ sock' = [sock EXCEPT ![c] = r[1]]
           /\ palCall' = r[2]
           /\ pending' = SockRegistered(r[1], c)
    /\ cbReg' = NoReg
    /\ UNCHANGED <<sockObj, apiCheck, loopVars, lbVars, mqVars, miioVars>>

\* lsocket_obj_sendall
lsocket_obj_sendall(c, o, len, err, n) ==
    /\ SockCanCall(c)
    /\ LET s == SockBegin(sock[c], "sendall", o, <<DataVal(len)>>)
           r == lsocket_obj_sent_int(s, o, TRUE, err, n)
       IN  /\ sock' = [sock EXCEPT ![c] = r[1]]
           /\ palCall' = r[2]
           /\ pending' = SockRegistered(r[1], c)
    /\ cbReg' = NoReg
    /\ UNCHANGED <<sockObj, apiCheck, loopVars, lbVars, mqVars, miioVars>>

\* lsocket_obj_sendto: err and n are the result of pal_socket_sendto
lsocket_obj_sendto(c, o, len, valid, err, n) ==
    /\ SockCanCall(c)
    /\ LET s == SockBegin(sock[c], "sendto", o, <<DataVal(len), Val("addr"), Val("port")>>)
           r == SockMethod(s, o, valid, "pal_socket_sendto", err,
                    finshsend([s EXCEPT !.stack = @ \o <<Val(err), IntVal(n)>>],
                              KContext(FALSE)))
       IN  /\ sock' = [sock EXCEPT ![c] = r[1]]
           /\ palCall' = r[2]
           /\ pending' = SockRegistered(r[1], c)
    /\ cbReg' = NoReg
    /\ UNCHANGED <<sockObj, apiCheck, loopVars, lbVars, mqVars, miioVars>>

\* lsocket_obj_recv: err is the result of pal_socket_recv
lsocket_obj_recv(c, o, err) ==
    /\ SockCanCall(c)
    /\ LET s == SockBegin(sock[c], "recv", o, <<Val("maxlen")>>)
           r == SockMethod(s, o, TRUE, "pal_socket_recv", err,
                    finshrecv([s EXCEPT !.stack = Append(@, Val(err))], KContext(FALSE)))
       IN  /\ sock' = [sock EXCEPT ![c] = r[1]]
           /\ palCall' = r[2]
           /\ pending' = SockRegistered(r[1], c)
    /\ cbReg' = NoReg
    /\ UNCHANGED <<sockObj, apiCheck, loopVars, lbVars, mqVars, miioVars>>

\* lsocket_obj_recvfrom
lsocket_obj_recvfrom(c, o, err) ==
    /\ SockCanCall(c)
    /\ LET s == SockBegin(sock[c], "recvfrom", o, <<Val("maxlen")>>)
           r == SockMethod(s, o, TRUE, "pal_socket_recv", err,
                    finshrecv([s EXCEPT !.stack = Append(@, Val(err))], KContext(TRUE)))
       IN  /\ sock' = [sock EXCEPT ![c] = r[1]]
           /\ palCall' = r[2]
           /\ pending' = SockRegistered(r[1], c)
    /\ cbReg' = NoReg
    /\ UNCHANGED <<sockObj, apiCheck, loopVars, lbVars, mqVars, miioVars>>

\* lsocket_obj_destroy
lsocket_obj_destroy(c, o) ==
    /\ SockCanCall(c)
    /\ LET s == SockBegin(sock[c], "destroy", o, <<>>)
       IN  IF ~lsocket_obj_get(o)
           THEN /\ sock' = [sock EXCEPT ![c] = SockRaise(s, "destroyed")]
                /\ palCall' = NoCall
                /\ UNCHANGED <<sockObj, pending>>
           ELSE /\ sock' = [sock EXCEPT ![c] = SockReturn(s, 0)]
                /\ palCall' = PalCall("pal_socket_destroy", o, "none")
                /\ sockObj' = [sockObj EXCEPT ![o].socket = NULL,
                                              ![o].released = Min(@ + 1, 2)]
                /\ pending' = Cancelled(o)
    /\ cbReg' = NoReg
    /\ UNCHANGED <<apiCheck, loopVars, lbVars, mqVars, miioVars>>

\* lsocket_obj_gc does this when the object still has its platform socket
GcReleases(o) == sockObj[o].socket # NULL

\* lsocket_obj_gc: the metamethods __gc and __close of socket object o
lsocket_obj_gc(o) ==
    /\ SockAlive
    /\ IF GcReleases(o)
       THEN /\ palCall' = PalCall("pal_socket_destroy", o, "none")
            /\ sockObj' = [sockObj EXCEPT ![o].socket = NULL,
                                          ![o].released = Min(@ + 1, 2)]
            /\ pending' = Cancelled(o)
       ELSE /\ palCall' = NoCall
            /\ UNCHANGED <<sockObj, pending>>
    /\ cbReg' = NoReg
    /\ UNCHANGED <<sock, apiCheck, loopVars, lbVars, mqVars, miioVars>>

(***************************************************************************)
(* The DNS binding                                                         *)
(***************************************************************************)
\* the status Lua passes to a continuation function after a yield
LUA_YIELD == 1

\* lua_isstring: strings and numbers
lua_isstring(v) == v.t \notin {"nil", "Socket*", "new_o", "junk"}

\* the arguments a script gives to resolve: the family is optional
ResolveArgs ==
    {<<Val("hostname")>>, <<Val("hostname"), Val("family")>>, <<Val("hostname"), Val("nil")>>}

\* finshresolve
finshresolve(s, status) ==
    IF status # 1 \/ ~lua_isstring(s.stack[Len(s.stack)])
    THEN SockRaise(s, "failed to resolve")
    ELSE SockReturn(s, 1)

\* ldns_resolve: started is the result of pal_dns_start_request
ldns_resolve(c, args, started) ==
    /\ SockCanCall(c)
    /\ LET s == [SockBegin(sock[c], "resolve", 0, <<>>) EXCEPT !.stack = args]
       IN  sock' = [sock EXCEPT ![c] =
                IF ~started THEN SockRaise(s, "failed to start DNS resolution request")
                ELSE SockYield(s, "0", "finshresolve")]
    /\ palCall' = PalCall("pal_dns_start_request", 0, IF started THEN "OK" ELSE "FAILED")
    /\ pending' = IF started THEN pending \cup {Reg("resolve", 0, c)} ELSE pending
    /\ cbReg' = NoReg
    /\ UNCHANGED <<sockObj, apiCheck, loopVars, lbVars, mqVars, miioVars>>

\* lc_resumethread on a continuation suspended by lua_yieldk: the continuation
\* function it registered runs with the values the callback pushed on top of
\* the stack the continuation had when it suspended
SockResume(s, err, pushed) ==
    LET d == [s EXCEPT !.delivered = Append(@, err), !.stack = @ \o pushed]
    IN  CASE s.k = "finshaccept" -> finshaccept(d, s.extra)
          [] s.k = "finshconnect" -> finshconnect(d, s.extra)
          [] s.k = "finshsend" -> finshsend(d, s.extra)
          [] s.k = "finshrecv" -> finshrecv(d, s.extra)
          [] s.k = "finshresolve" -> finshresolve(d, LUA_YIELD)

\* the platform completes request r, one of the operations in ops: the
\* process is alive and the continuation has room for one more result
SockPending(r, ops) ==
    /\ SockAlive
    /\ r \in pending
    /\ r.op \in ops
    /\ Len(sock[r.c].delivered) < MaxDeliveries

\* a completion callback pushes values on the continuation it was given and
\* calls lc_resumethread: a continuation that is suspended runs its
\* continuation function, resuming any other fails and is logged
SockCompleted(r, err, pushed) ==
    IF sock[r.c].st = "suspended"
    THEN [sock EXCEPT ![r.c] = SockResume(sock[r.c], err, pushed)]
    ELSE sock

\* the platform is done with a request unless it reported "in progress"
StillPending(r, err) == IF err = "IN_PROGRESS" THEN pending ELSE pending \ {r}

\* ldns_response_cb: request r completes, with an address or with none
ldns_response_cb(r, hasAddr) ==
    /\ SockPending(r, {"resolve"})
    /\ sock' = SockCompleted(r, IF hasAddr THEN "addr" ELSE "none",
                             IF hasAddr THEN <<Val("addr")>> ELSE <<>>)
    /\ pending' = pending \ {r}
    /\ cbReg' = r
    /\ palCall' = NoCall
    /\ UNCHANGED <<sockObj, apiCheck, loopVars, lbVars, mqVars, miioVars>>

\* lsocket_accepted_cb
lsocket_accepted_cb(r, err) ==
    /\ SockPending(r, {"accept"})
    /\ sock' = SockCompleted(r, err, <<Val(err), Val("new_o"), Val("addr"), Val("port")>>)
    /\ pending' = StillPending(r, err)
    /\ cbReg' = r
    /\ palCall' = NoCall
    /\ UNCHANGED <<sockObj, apiCheck, loopVars, lbVars, mqVars, miioVars>>

\* lsocket_connected_cb
lsocket_connected_cb(r, err) ==
    /\ SockPending(r, {"connect"})
    /\ sock' = SockCompleted(r, err, <<Val(err)>>)
    /\ pending' = StillPending(r, err)
    /\ cbReg' = r
    /\ palCall' = NoCall
    /\ UNCHANGED <<sockObj, apiCheck, loopVars, lbVars, mqVars, miioVars>>

\* the lengths the buffer of send request r can have: the continuation that
\* is suspended on r holds the buffer in the second slot of its stack
ReqLens(r) ==
    LET s == sock[r.c]
    IN  IF s.st = "suspended" /\ Reg(s.op, s.on, r.c) = r THEN {s.stack[2].n} ELSE 1..MaxLen

\* lsocket_sent_cb
lsocket_sent_cb(r, err, n) ==
    /\ SockPending(r, {"send", "sendall", "sendto"})
    /\ \E len \in ReqLens(r) : n \in SentLens(len, r.op = "sendall", err)
    /\ sock' = SockCompleted(r, err, <<Val(err), IntVal(n)>>)
    /\ pending' = StillPending(r, err)
    /\ cbReg' = r
    /\ palCall' = NoCall
    /\ UNCHANGED <<sockObj, apiCheck, loopVars, lbVars, mqVars, miioVars>>

\* lsocket_recved_cb
lsocket_recved_cb(r, err) ==
    /\ SockPending(r, {"recv", "recvfrom"})
    /\ sock' = SockCompleted(r, err, <<Val("data"), Val("addr"), Val("port"), Val(err)>>)
    /\ pending' = StillPending(r, err)
    /\ cbReg' = r
    /\ palCall' = NoCall
    /\ UNCHANGED <<sockObj, apiCheck, loopVars, lbVars, mqVars, miioVars>>

(***************************************************************************)
(* Specification of the timer registry: timers are registered and          *)
(* deregistered outside Run and inside timer callbacks; no file handles.   *)
(***************************************************************************)
(***************************************************************************)
(* The miIO protocol control block (plugins/miio/protocol.lua).  The        *)
(* continuations of the script call pcb:request on one control block; a     *)
(* call runs from one socket primitive that may suspend it to the next.     *)
(***************************************************************************)
\* the continuations that make requests on the control block
NReqs == 2

Reqs == 1..NReqs

\* the value of a field that is not set
LuaNil == "nil"

\* os.time() - result.stamp, the offset stored by a handshake
StampOffset == "offset"

\* the messages of the errors a socket primitive raises
SocketErrors == {"timeout", "failed"}

\* result:find("timeout")
FindTimeout(result) == result = "timeout"

\* a continuation that is not inside pcb:request; `out` is how its last call
\* that ended did end
IdleReq(out) == [pc |-> "idle", unset |-> FALSE, hs |-> FALSE, sent |-> FALSE, out |-> out]

\* protocol.create: the control block has no stampDiff field
protocol_create ==
    /\ stampDiff = LuaNil
    /\ req = [r \in Reqs |-> IdleReq("none")]

Init == LoopInit /\ LoopbackInit /\ QueueInit(1) /\ SocketInit /\ protocol_create

NextTimer ==
    \/ \E d \in Deadlines : HAPPlatformTimerRegister(d, TRUE)
    \/ \E id \in 1..MaxTimers : HAPPlatformTimerDeregister(id)
    \/ ProcessExpiredTimersStep
    \/ TimerCallbackReturn
    \/ ProcessSelectedFileHandlesStep
    \/ HAPPlatformRunLoopStop
    \/ HAPPlatformRunLoopRun
    \/ RunBuildInterestSets
    \/ RunSelectReturns(FALSE)
    \/ RunSelectInterrupted
    \/ RunLoopCondition
    \/ Tick

SpecTimer == Init /\ [][NextTimer]_vars

(***************************************************************************)
(* Specification of the file-descriptor multiplexer: handles are           *)
(* registered and deregistered outside Run and inside file handle          *)
(* callbacks; no timers, so the wait has no timeout.                       *)
(***************************************************************************)
NextFH ==
    \/ \E d \in UserFDs, i \in InterestChoices : HAPPlatformFileHandleRegister(d, i, TRUE)
    \/ \E h \in HandleIds : HAPPlatformFileHandleDeregister(h)
    \/ ProcessExpiredTimersStep
    \/ ProcessSelectedFileHandlesStep
    \/ FileHandleCallbackReturn
    \/ HAPPlatformRunLoopRun
    \/ RunBuildInterestSets
    \/ RunSelectReturns(FALSE)
    \/ RunLoopCondition

SpecFH == Init /\ [][NextFH]_vars

(***************************************************************************)
(* Specification of one loop with timers and file handles: registrations   *)
(* outside Run and inside timer and file handle callbacks, Stop from the   *)
(* callbacks of a running loop.                                            *)
(***************************************************************************)
Next ==
    \/ \E d \in Deadlines : timerCount < LoopMaxTimers /\ HAPPlatformTimerRegister(d, TRUE)
    \/ ProcessExpiredTimersStep
    \/ TimerCallbackReturn
    \/ fhCount < LoopMaxFileHandles /\ HAPPlatformFileHandleRegister(LoopFd, {"R"}, TRUE)
    \/ \E h \in HandleIds : HAPPlatformFileHandleDeregister(h)
    \/ ProcessSelectedFileHandlesStep
    \/ FileHandleCallbackReturn
    \/ state = "Running" /\ HAPPlatformRunLoopStop
    \/ HAPPlatformRunLoopRun
    \/ RunBuildInterestSets
    \/ RunSelectReturns(FALSE)
    \/ RunSelectInterrupted
    \/ RunSelectFails
    \/ RunLoopCondition
    \/ pc \in {"out", "select"} /\ Tick

Spec == Init /\ [][Next]_vars

(***************************************************************************)
(* Specification of the lifecycle: Create, Run, Stop and Release called    *)
(* outside Run and inside timer and file handle callbacks.                 *)
(***************************************************************************)
NextLife ==
    \/ timerCount < LifeMaxTimers /\ HAPPlatformTimerRegister(0, TRUE)
    \/ ProcessExpiredTimersStep
    \/ TimerCallbackReturn
    \/ fhCount < LoopMaxFileHandles /\ HAPPlatformFileHandleRegister(LoopFd, {"R"}, TRUE)
    \/ ProcessSelectedFileHandlesStep
    \/ FileHandleCallbackReturn
    \/ \E allocated \in BOOLEAN : HAPPlatformRunLoopCreate(allocated)
    \/ HAPPlatformRunLoopRelease
    \/ HAPPlatformRunLoopStop
    \/ HAPPlatformRunLoopRun
    \/ RunBuildInterestSets
    \/ RunSelectReturns(FALSE)
    \/ RunLoopCondition
    \/ pc = "select" /\ Tick

SpecLife == Init /\ [][NextLife]_vars

(***************************************************************************)
(* Specification of file handles on one descriptor that are registered,    *)
(* deregistered and updated outside Run and inside callbacks of a pass.    *)
(***************************************************************************)
Callbacks == {"user", "NULL"}

NextUpd ==
    \/ \E i \in InterestChoices :
          fhCount < LoopMaxFileHandles /\ HAPPlatformFileHandleRegister(LoopFd, i, TRUE)
    \/ \E h \in HandleIds, i \in InterestChoices, cb \in Callbacks :
          HAPPlatformFileHandleUpdateInterests(h, i, cb)
    \/ \E h \in HandleIds : HAPPlatformFileHandleDeregister(h)
    \/ ProcessExpiredTimersStep
    \/ ProcessSelectedFileHandlesStep
    \/ FileHandleCallbackReturn
    \/ HAPPlatformRunLoopRun
    \/ RunBuildInterestSets
    \/ RunSelectReturns(FALSE)
    \/ RunLoopCondition

SpecUpd == Init /\ [][NextUpd]_vars

(***************************************************************************)
(* Specification of the loop whose timer callbacks register timers without *)
(* end. The histories of the timers (allocation count, addresses, fates,   *)
(* the log of firings) are not kept, so that a timer is known by a name    *)
(* that is free again once the timer is released.                          *)
(***************************************************************************)
\* a name for a new timer: the lowest that no allocated timer has
FreeTimerName(ts, e) ==
    CHOOSE id \in 1..(MaxTimers + 1) :
       /\ id \notin AllocatedTimers(ts, e)
       /\ \A j \in 1..(id - 1) : j \in AllocatedTimers(ts, e)

\* HAPPlatformTimerRegister with memory available
TimerRegisterAgain(deadline) ==
    /\ UserCode
    /\ Len(timers) < MaxTimers
    /\ timers' = InsertAt(timers, InsertPos(timers, deadline),
                          [id |-> FreeTimerName(timers, expiredTimer),
                           deadline |-> StoredDeadline(deadline)])
    /\ UNCHANGED <<state, pc, fatal, now, timerCount, timerAddr, timerFate, expiredTimer, tnow, fh, fhCount,
                   cursor, fileHandle, fileHandleEvents, fdsets, timeoutAt, lbFd0, lbFd1, lbHandle, iterLog,
                   passEligible, stopLog, regFailed>>
    /\ UNCHANGED <<lateHandles, otherVars>>

\* ProcessExpiredTimers, a turn of the while loop that finds the head expired
ExpiredTimerFires ==
    /\ pc = "timers"
    /\ HeadExpired(timers, tnow)
    /\ expiredTimer' = Head(timers).id
    /\ timers' = TimersAfterExpiry(timers)
    /\ pc' = "timerCb"
    /\ UNCHANGED <<state, fatal, now, timerCount, timerAddr, timerFate, tnow, fh, fhCount, cursor,
                   fileHandle, fileHandleEvents, fdsets, timeoutAt, lbFd0, lbFd1, lbHandle, iterLog,
                   passEligible, stopLog, regFailed>>
    /\ UNCHANGED <<lateHandles, otherVars>>

\* the steps of the loop thread that are not calls made by the callbacks
LoopThreadRearm ==
    \/ ExpiredTimerFires
    \/ ~HeadExpired(timers, tnow) /\ ProcessExpiredTimersStep
    \/ TimerCallbackReturn
    \/ ProcessSelectedFileHandlesStep
    \/ FileHandleCallbackReturn
    \/ RunBuildInterestSets
    \/ RunSelectReturns(FALSE)
    \/ RunLoopCondition

NextRearm ==
    \/ \E d \in Deadlines : TimerRegisterAgain(d)
    \/ pc = "out" /\ fhCount < LoopMaxFileHandles /\ HAPPlatformFileHandleRegister(LoopFd, {"R"}, TRUE)
    \/ pc = "out" /\ HAPPlatformRunLoopRun
    \/ pc \in {"out", "select"} /\ Tick
    \/ LoopThreadRearm

\* the loop thread is scheduled: a step of the loop that can be taken is taken,
\* and every callback returns
SpecRearm == Init /\ [][NextRearm]_vars /\ WF_vars(LoopThreadRearm)

(***************************************************************************)
(* Specification of the loop whose wait is interrupted by signals: select  *)
(* may return EINTR, and a signal handler may call Stop during the wait.   *)
(***************************************************************************)
NextIntr ==
    \/ \E d \in Deadlines : timerCount < LoopMaxTimers /\ HAPPlatformTimerRegister(d, TRUE)
    \/ ProcessExpiredTimersStep
    \/ TimerCallbackReturn
    \/ fhCount < LoopMaxFileHandles /\ HAPPlatformFileHandleRegister(LoopFd, {"R"}, TRUE)
    \/ ProcessSelectedFileHandlesStep
    \/ FileHandleCallbackReturn
    \/ state = "Running" /\ HAPPlatformRunLoopStop
    \/ state = "Running" /\ StopInSignalHandler
    \/ HAPPlatformRunLoopRun
    \/ RunBuildInterestSets
    \/ RunSelectReturns(FALSE)
    \/ RunSelectInterrupted
    \/ RunLoopCondition
    \/ pc \in {"out", "select"} /\ Tick

SpecIntr == Init /\ [][NextIntr]_vars

(***************************************************************************)
(* Specification of the loop when memory runs out: calloc may return NULL  *)
(* at any registration, outside Run and inside timer and file handle       *)
(* callbacks. The other specifications of the loop have memory for every   *)
(* registration: a failed registration changes nothing in the loop.        *)
(***************************************************************************)
NextAlloc ==
    \/ \E allocated \in BOOLEAN :
          (allocated => timerCount < LifeMaxTimers) /\ HAPPlatformTimerRegister(0, allocated)
    \/ ProcessExpiredTimersStep
    \/ TimerCallbackReturn
    \/ \E allocated \in BOOLEAN :
          (allocated => fhCount < LoopMaxFileHandles)
          /\ HAPPlatformFileHandleRegister(LoopFd, {"R"}, allocated)
    \/ ProcessSelectedFileHandlesStep
    \/ FileHandleCallbackReturn
    \/ HAPPlatformRunLoopStop
    \/ HAPPlatformRunLoopRun
    \/ RunBuildInterestSets
    \/ RunSelectReturns(FALSE)
    \/ RunLoopCondition
    \/ pc = "select" /\ Tick

SpecAlloc == Init /\ [][NextAlloc]_vars

(***************************************************************************)
(* Specification of the loopback channel: the loop has been created, Run   *)
(* executes on the loop thread and other threads schedule callbacks.       *)
(***************************************************************************)
\* the state after HAPPlatformRunLoopCreate
InitLB ==
    /\ state = "Idle"
    /\ pc = "out"
    /\ fatal = "none"
    /\ now = 0
    /\ timers = <<>>
    /\ timerCount = 0
    /\ timerAddr = <<>>
    /\ timerFate = <<>>
    /\ expiredTimer = 0
    /\ tnow = 0
    /\ fh = LinkFileHandle([h \in 0..MaxFileHandles |->
                              IF h = Sentinel THEN SentinelInit ELSE ClearedFileHandle],
                           1, LoopbackFd0, {"R"}, "loopback")
    /\ fhCount = 1
    /\ cursor = Sentinel
    /\ fileHandle = 0
    /\ fileHandleEvents = {}
    /\ fdsets = [d \in AllFDs |-> {}]
    /\ timeoutAt = NULL
    /\ lbFd0 = LoopbackFd0
    /\ lbFd1 = LoopbackFd1
    /\ lbHandle = 1
    /\ iterLog = <<>>
    /\ passEligible = {}
    /\ stopLog = <<>>
    /\ regFailed = NoFailure
    /\ lateHandles = {}
    /\ LoopbackInit
    /\ QueueInit(1)
    /\ SocketInit
    /\ protocol_create

\* the steps of the loop thread
LoopThreadLB ==
    \/ HAPPlatformRunLoopRun
    \/ RunBuildInterestSets
    \/ \E spurious \in BOOLEAN : RunSelectReturns(spurious)
    \/ RunSelectFails
    \/ ProcessExpiredTimersStep
    \/ ProcessSelectedFileHandlesStep
    \/ LoopbackRecv
    \/ \E n \in RecvFailures : LoopbackRecvFails(n)
    \/ LoopbackDispatch
    \/ ScheduledCallbackReturn
    \/ RunLoopCondition

NextLB ==
    \/ \E t \in Threads, n \in ContextSizes, sendOk \in BOOLEAN :
          HAPPlatformRunLoopScheduleCallback(t, n, sendOk)
    \/ LoopThreadLB

\* the loop thread is scheduled: a step of the loop that can be taken is taken
SpecLB == InitLB /\ [][NextLB]_vars /\ WF_vars(LoopThreadLB)

(***************************************************************************)
(* Specification of the message queue: one queue of any capacity, used by  *)
(* continuations that send, receive, finish and are started again.         *)
(***************************************************************************)
InitMQ ==
    /\ LoopInit /\ LoopbackInit /\ SocketInit /\ protocol_create
    /\ \E capacity \in 1..MaxCapacity : QueueInit(capacity)

NextMQ ==
    \/ \E c \in Cos : CoStart(c)
    \/ CoPause
    \/ \E msg \in Messages : lmq_obj_send(msg)
    \/ SendResumeNext
    \/ lmq_obj_recv

SpecMQ == InitMQ /\ [][NextMQ]_vars

(***************************************************************************)
(* Specification of the socket binding: continuations call the methods of  *)
(* socket objects and the platform's completion callbacks resume them with *)
(* any result. The Lua library is built with or without LUA_USE_APICHECK.  *)
(***************************************************************************)
InitSock ==
    /\ LoopInit /\ LoopbackInit /\ QueueInit(1) /\ protocol_create
    /\ sock = [c \in SockCos |-> [st |-> "script", op |-> "none", on |-> 0, k |-> "none",
                                  extra |-> ObjExtra, stack |-> <<>>, ret |-> <<>>,
                                  error |-> "none", delivered |-> <<>>, sent |-> 0]]
    /\ sockObj = [o \in SockObjs |-> [socket |-> o, released |-> 0]]
    /\ palCall = NoCall
    /\ apiCheck \in BOOLEAN
    /\ pending = {}
    /\ cbReg = NoReg

NextSock ==
    \/ \E c \in SockCos, o \in SockObjs, valid \in BOOLEAN : lsocket_obj_settimeout(c, o, valid)
    \/ \E c \in SockCos, o \in SockObjs, err \in PalSocketErr :
          \/ lsocket_obj_enablebroadcast(c, o, err)
          \/ lsocket_obj_listen(c, o, err)
          \/ lsocket_obj_accept(c, o, err)
          \/ lsocket_obj_recv(c, o, err)
          \/ lsocket_obj_recvfrom(c, o, err)
          \/ \E valid \in BOOLEAN :
                \/ lsocket_obj_bind(c, o, valid, err)
                \/ lsocket_obj_connect(c, o, valid, err)
          \/ \E len \in 1..MaxLen :
                \/ \E n \in SentLens(len, FALSE, err) :
                      \/ lsocket_obj_send(c, o, len, err, n)
                      \/ \E valid \in BOOLEAN : lsocket_obj_sendto(c, o, len, valid, err, n)
                \/ \E n \in SentLens(len, TRUE, err) : lsocket_obj_sendall(c, o, len, err, n)
    \/ \E c \in SockCos, o \in SockObjs : lsocket_obj_destroy(c, o)
    \/ \E c \in SockCos, args \in ResolveArgs, started \in BOOLEAN : ldns_resolve(c, args, started)
    \/ \E r \in Requests, hasAddr \in BOOLEAN : ldns_response_cb(r, hasAddr)
    \/ \E o \in SockObjs : lsocket_obj_gc(o)
    \/ \E r \in Requests, err \in PalSocketErr :
          \/ lsocket_accepted_cb(r, err)
          \/ lsocket_connected_cb(r, err)
          \/ lsocket_recved_cb(r, err)
          \/ \E n \in 0..MaxLen : lsocket_sent_cb(r, err, n)

SpecSock == InitSock /\ [][NextSock]_vars

(***************************************************************************)
(* Specification of the miIO requests                                      *)
(***************************************************************************)
\* pcb:request up to its first socket call: with no stampDiff it calls
\* pcb:handshake, whose protocol.scan sends the hello packets and waits in
\* recvfrom; otherwise it creates its socket and calls connect
pcb_request(r) ==
    /\ req[r].pc = "idle"
    /\ req' = [req EXCEPT ![r] = [pc |-> IF stampDiff = LuaNil THEN "scan" ELSE "connect",
                                  unset |-> stampDiff = LuaNil,
                                  hs |-> FALSE, sent |-> FALSE, out |-> req[r].out]]
    /\ UNCHANGED stampDiff
    /\ UNCHANGED <<loopVars, lbVars, mqVars, sockVars>>

\* pcb:handshake: protocol.scan returns the reply of the device, or raises (a
\* socket error, the timeout included, or a packet that is not a hello reply
\* of the device); with the reply the offset is stored and request goes on to
\* connect
pcb_handshake(r, ok) ==
    /\ req[r].pc = "scan"
    /\ IF ok
       THEN /\ stampDiff' = StampOffset
            /\ req' = [req EXCEPT ![r].pc = "connect", ![r].hs = TRUE]
       ELSE /\ req' = [req EXCEPT ![r] = IdleReq("error")]
            /\ UNCHANGED stampDiff
    /\ UNCHANGED <<loopVars, lbVars, mqVars, sockVars>>

\* pcb:request from the return of connect to the call of sock:send: the packet
\* is built from os.time() - self.stampDiff, an error when the field is nil
pcb_request_send(r, ok) ==
    /\ req[r].pc = "connect"
    /\ IF ok /\ stampDiff # LuaNil
       THEN req' = [req EXCEPT ![r].pc = "send", ![r].sent = TRUE]
       ELSE req' = [req EXCEPT ![r] = IdleReq("error")]
    /\ UNCHANGED stampDiff
    /\ UNCHANGED <<loopVars, lbVars, mqVars, sockVars>>

\* pcb:request from the return of sock:send to the call of sock.recv
pcb_request_recv(r, ok) ==
    /\ req[r].pc = "send"
    /\ IF ok
       THEN req' = [req EXCEPT ![r].pc = "recv"]
       ELSE req' = [req EXCEPT ![r] = IdleReq("error")]
    /\ UNCHANGED stampDiff
    /\ UNCHANGED <<loopVars, lbVars, mqVars, sockVars>>

\* a faulty variant: a receive error leaves the offset as it is
StampDiffAfterRecvErrorKept(result, sd) == sd

\* pcb:request: `if result:find("timeout") then self.stampDiff = nil end`
StampDiffAfterRecvError(result, sd) ==
    IF FindTimeout(result) THEN LuaNil ELSE sd

\* pcb:request: sock.recv raised
pcb_request_recv_failed(r, result) ==
    /\ req[r].pc = "recv"
    /\ stampDiff' = StampDiffAfterRecvError(result, stampDiff)
    /\ req' = [req EXCEPT ![r] = IdleReq(result)]
    /\ UNCHANGED <<loopVars, lbVars, mqVars, sockVars>>

\* pcb:request: sock.recv returned a packet; the request returns the result of
\* a valid answer and raises for any other
pcb_request_received(r, valid) ==
    /\ req[r].pc = "recv"
    /\ req' = [req EXCEPT ![r] = IdleReq(IF valid THEN "result" ELSE "error")]
    /\ UNCHANGED stampDiff
    /\ UNCHANGED <<loopVars, lbVars, mqVars, sockVars>>

NextMiio ==
    \/ \E r \in Reqs : pcb_request(r)
    \/ \E r \in Reqs, ok \in BOOLEAN : pcb_handshake(r, ok)
    \/ \E r \in Reqs, ok \in BOOLEAN : pcb_request_send(r, ok)
    \/ \E r \in Reqs, ok \in BOOLEAN : pcb_request_recv(r, ok)
    \/ \E r \in Reqs, result \in SocketErrors : pcb_request_recv_failed(r, result)
    \/ \E r \in Reqs, valid \in BOOLEAN : pcb_request_received(r, valid)

SpecMiio == Init /\ [][NextMiio]_vars

(***************************************************************************)
(* Claims about the timer registry                                         *)
(***************************************************************************)
\* timer a is due to fire before timer b: smaller stored deadline, or the same
\* stored deadline and registered earlier
FiresBefore(a, b) ==
    \/ a.deadline < b.deadline
    \/ a.deadline = b.deadline /\ a.id < b.id

\* C1: whenever a timer's callback is invoked, every timer pending together with
\* it has a larger stored deadline, or the same stored deadline and a later
\* registration (deadline 0 is stored as 1).
C1_TimersFireInDeadlineThenRegistrationOrder ==
    [][(pc = "timers" /\ pc' = "timerCb") =>
          \A i \in 2..Len(timers) : FiresBefore(timers[1], timers[i])]_vars

(***************************************************************************)
(* Claims about the delivery pass and the iteration of Run                 *)
(***************************************************************************)
\* positions of the events of one kind in the log of the current iteration
LogIdx(kind) == {i \in 1..Len(iterLog) : iterLog[i][1] = kind}

\* handles whose callback was invoked in the current iteration
Invoked == {iterLog[i][2] : i \in LogIdx("F")}

\* the delivery pass of the current iteration has run to its end
PassDone == LogIdx("IOdone") # {}

\* C2: in a delivery pass whose callbacks register and deregister handles, a
\* callback is only invoked on a handle that is registered at that moment, and
\* when the pass ends every handle that was signalled when it began and is
\* still registered has had its callback invoked.
C2_NoCallbackAfterDeregisterAndNoSkip ==
    /\ [][(pc = "io" /\ pc' = "fhCb") => fileHandle' \in Registered(fh)]_vars
    /\ []((pc = "cond" /\ PassDone) =>
            \A h \in passEligible : h \in Registered(fh) => h \in Invoked)

\* a pass ended in which a signalled handle was deregistered before its turn
\* and a later signalled handle was invoked
C2_Witness ==
    /\ pc = "cond"
    /\ PassDone
    /\ \E h \in passEligible, g \in passEligible :
          /\ h < g
          /\ h \notin Registered(fh)
          /\ h \notin Invoked
          /\ g \in Invoked

\* C4: in every iteration the callbacks of the due timers run before every file
\* handle callback, no due timer is left when the delivery pass begins, and the
\* file handle callbacks run in list order (the order of registration).
C4_TimersBeforeIOInListOrder ==
    /\ \A i \in LogIdx("T"), j \in LogIdx("F") : i < j
    /\ \A i \in LogIdx("T"), j \in LogIdx("IO") : i < j
    /\ \A i \in LogIdx("F"), j \in LogIdx("F") : i < j => iterLog[i][2] < iterLog[j][2]
    /\ (pc = "io" /\ iterLog # <<>> /\ iterLog[Len(iterLog)][1] = "IO") =>
          \A k \in 1..Len(timers) : timers[k].deadline > tnow

\* an iteration in which two timers fired and then two file handles were called
C4_Witness ==
    /\ Cardinality(LogIdx("T")) >= 2
    /\ Cardinality(LogIdx("F")) >= 2
    /\ PassDone

\* Stop took effect inside a timer callback of the current iteration
StopInTimerCallback ==
    \E k \in LogIdx("Stop") : k > 1 /\ \A j \in 1..(k - 1) : iterLog[j][1] = "T"

\* C5: after a Stop inside a timer callback the firing pass still fires every
\* due timer, the delivery pass of the same iteration still runs, no further
\* iteration starts, and Run returns with the state Idle.
C5_StopInTimerCallbackFinishesIteration ==
    /\ []((StopInTimerCallback /\ pc = "io" /\ iterLog[Len(iterLog)][1] = "IO") =>
            \A k \in 1..Len(timers) : timers[k].deadline > tnow)
    /\ []((StopInTimerCallback /\ pc = "out") => (state = "Idle" /\ PassDone))
    /\ [][(StopInTimerCallback /\ pc = "cond") => pc' = "out"]_vars

\* Run has returned from an iteration in which the first timer callback called
\* Stop, a second due timer fired after it and a file handle callback ran
C5_Witness ==
    /\ pc = "out"
    /\ state = "Idle"
    /\ StopInTimerCallback
    /\ \E k \in LogIdx("Stop"), t \in LogIdx("T"), f \in LogIdx("F") : k < t /\ t < f

\* C6: a Stop call changes the state only from Running to Stopping, and Run
\* returns only after a Stop that was called while the loop was Running.
C6_StopOnlyEffectiveWhileRunning ==
    /\ [][Len(stopLog') = Len(stopLog) + 1 =>
            state' = (IF state = "Running" THEN "Stopping" ELSE state)]_vars
    /\ [][(pc = "cond" /\ pc' = "out") => \E i \in 1..Len(stopLog) : stopLog[i] = "Running"]_vars
    /\ [](pc \in {"build", "select", "timers", "timerCb", "io"} =>
            state = (IF \E i \in 1..Len(stopLog) : stopLog[i] = "Running"
                     THEN "Stopping" ELSE "Running"))

\* Stop was called before Run, Run is executing, and two more Stop calls were made
C6_Witness ==
    /\ pc = "cond"
    /\ state = "Stopping"
    /\ stopLog = <<"Idle", "Running", "Stopping">>

\* C7: the state changes only Idle->Running (entry of Run), Running->Stopping
\* (Stop) and Stopping->Idle (Run returning), and the assertion at the exit of
\* Run never fails.
C7_StateMachineAndExitAssertion ==
    /\ [][state' # state =>
            \/ state = "Idle" /\ state' = "Running" /\ pc = "out" /\ pc' = "build"
            \/ state = "Running" /\ state' = "Stopping"
            \/ state = "Stopping" /\ state' = "Idle" /\ pc = "cond" /\ pc' = "out"]_vars
    /\ [](fatal # "assert")

(***************************************************************************)
(* Claims about the loopback channel                                       *)
(***************************************************************************)
\* the invocations of the callback scheduled by thread t
InvokedFor(t) == {i \in 1..Len(lbInvoked) : lbInvoked[i].callback = CallbackAddress(t)}

\* the callback of thread t was invoked once, with the size and bytes t passed
DeliveredOnce(t) ==
    /\ Cardinality(InvokedFor(t)) = 1
    /\ \A i \in InvokedFor(t) :
          /\ lbInvoked[i].size = thread[t].size
          /\ lbInvoked[i].context = ContextOf(t, thread[t].size)

\* no callback is invoked twice, or for a call that failed, or with other bytes
AtMostOnceIntact ==
    \A t \in Threads :
       InvokedFor(t) # {} => (thread[t].err = "None" /\ DeliveredOnce(t))

\* C3 as stated: every call that passes the size check leads, while the loop
\* keeps running, to exactly one invocation with the context intact.
C3_EveryCallPassingSizeCheckIsDelivered ==
    /\ []AtMostOnceIntact
    /\ \A t \in Threads :
          (thread[t].pc = "done" /\ ~SizeError(thread[t].size))
             ~> (DeliveredOnce(t) \/ fatal # "none")

\* C3 as amended: every call that returns without error leads, while the loop
\* keeps running, to exactly one invocation with the context intact.
C3_EverySuccessfulCallIsDelivered ==
    /\ []AtMostOnceIntact
    /\ \A t \in Threads :
          (thread[t].err = "None") ~> (DeliveredOnce(t) \/ fatal # "none")

\* every thread's callback has run, one of them with a context of 255 bytes and
\* one without context
C3_Witness ==
    /\ \A t \in Threads : DeliveredOnce(t)
    /\ \E t \in Threads : thread[t].size = 255
    /\ \E t \in Threads : thread[t].size = 0


(***************************************************************************)
(* Claims about the message queue (checked under SpecMQ)                   *)
(***************************************************************************)
\* a step that is a call of send
SendCall == \E msg \in Messages : lmq_obj_send(msg)

\* the innermost call of send that is resuming waiters
Top == sends[Len(sends)]

\* a step in which the innermost send resumes its next waiter
Resuming == sends # <<>> /\ Top.i <= Len(Top.tbl) /\ SendResumeNext

\* a step in which the innermost send returns to its caller
Returning == sends # <<>> /\ Top.i > Len(Top.tbl) /\ SendResumeNext

\* of the waiters tbl[from], tbl[from + 1], ..., the one suspended in recv the longest
Oldest(tbl, from) ==
    Head(SelectSeq(waitOrder, LAMBDA x : \E j \in from..Len(tbl) : tbl[j] = x))

C10_SendRespectsCapacity ==
    /\ [](Cardinality(Buffered) <= size)
    /\ [][(waitOrder = <<>> /\ wait = NoWait /\ SendCall) =>
             IF Cardinality(Buffered) < size
             THEN /\ co'[running].res = "ok"
                  /\ Cardinality(Buffered') = Cardinality(Buffered) + 1
             ELSE /\ co'[running].res = "full"
                  /\ buf' = buf]_vars

\* C11: in every reachable state of the queue it is never the case that the
\* buffer holds at least one message while at least one continuation is
\* suspended in recv.
C11_NeverBufferedWhileWaiting ==
    Buffered = {} \/ waitOrder = <<>>

\* the ring positions from f up to, not including, l: where the tuples sent and
\* not yet received are kept, oldest first
RingInterval(f, l, sz) ==
    {k \in 1..(sz + 1) : IF f <= l THEN f <= k /\ k < l ELSE k >= f \/ k < l}

\* a step in which send stores its values in the buffer
BufferingSend == wait = NoWait /\ SendCall /\ last' # last

\* a step in which recv takes a tuple from the buffer
RecvFromBuffer == lmq_obj_recv /\ first' # first

\* C12: the messages sent while no continuation is waiting are received in the
\* order sent, each once, with its values in order and arity: the stored tuples
\* are exactly those at the ring positions first .. last - 1, a send stores the
\* values it was given at the free position last and leaves the other tuples
\* alone, and a recv returns all the values of the tuple at position first, the
\* oldest, and removes only that tuple.
C12_BufferedMessagesReceivedInOrderIntact ==
    /\ [](Buffered = RingInterval(first, last, size))
    /\ [][BufferingSend =>
             /\ buf[last] = NoTuple
             /\ \E msg \in Messages : buf' = [buf EXCEPT ![last] = msg]]_vars
    /\ [][RecvFromBuffer =>
             /\ co'[running].ret = buf[first]
             /\ buf' = [buf EXCEPT ![first] = NoTuple]]_vars

\* C13: recv suspends the caller if and only if no message is buffered at the
\* time of the call, and a continuation suspended in recv leaves recv only by
\* being resumed by a send on the queue.
C13_RecvSuspendsIffEmptyAndReturnsOnlyBySend ==
    /\ [][lmq_obj_recv => (co'[running].st = "waiting" <=> Buffered = {})]_vars
    /\ [][\A c \in Cos :
             (co[c].st = "waiting" /\ co'[c].st # "waiting") =>
                 (Resuming /\ running' = c)]_vars

(***************************************************************************)
(* Further claims about timers                                             *)
(***************************************************************************)
\* C14: whenever a timer callback is invoked, the clock is not smaller than
\* the stored deadline of that timer, whatever was registered and whenever the
\* readiness wait returned (on a readiness event before the deadline, on its
\* timeout, or interrupted).
C14_NoTimerFiresBeforeItsDeadline ==
    [][(pc = "timers" /\ pc' = "timerCb") => Head(timers).deadline <= now]_vars

\* the wait returned on a readiness event, a due timer is being fired, and the
\* next timer, not yet due, stays pending
C14_Witness ==
    /\ pc = "timerCb"
    /\ \E d \in AllFDs : fdsets[d] # {}
    /\ timers # <<>>
    /\ Head(timers).deadline > now

\* a step in which ProcessExpiredTimers invokes the callback of the head timer
TimerFires == pc = "timers" /\ pc' = "timerCb"

\* C15: a timer is released once, by firing or by deregistration: the pending
\* timers are exactly those in the list, each once; a callback is invoked only
\* for a timer that is pending (never fired before, never deregistered), and
\* a timer that fired or was deregistered stays so and never returns to the list.
C15_TimerReleasedOnce ==
    /\ [](\A id \in 1..timerCount :
             timerFate[id] = "pending" <=>
                 Cardinality({k \in 1..Len(timers) : timers[k].id = id}) = 1)
    /\ [](\A k \in 1..Len(timers) : timerFate[timers[k].id] = "pending")
    /\ [][TimerFires =>
             /\ timerFate[Head(timers).id] = "pending"
             /\ timerFate'[Head(timers).id] = "fired"]_vars
    /\ [][\A id \in 1..timerCount :
             timerFate[id] # "pending" => timerFate'[id] = timerFate[id]]_vars

\* the firing pass has ended and a timer that was due in it was deregistered
\* by the callback of another timer of the pass, so it did not fire
C15_Witness ==
    /\ pc = "cond"
    /\ \E id \in 1..timerCount : timerFate[id] = "cancelledDue"
    /\ \E id \in 1..timerCount : timerFate[id] = "fired"

\* the handle of timer id is the address of a pending timer
HandlePending(id) == \E k \in 1..Len(timers) : timerAddr[timers[k].id] = timerAddr[id]

\* C16 as stated: deregistering the handle of a timer that is no longer
\* pending (it was deregistered, it fired, or its callback is running and the
\* call comes from that callback) ends in the fatal error state.
C16_DeregisterOfReleasedTimerIsFatal ==
    [][\A id \in 1..timerCount :
          (timerFate[id] # "pending" /\ HAPPlatformTimerDeregister(id)) =>
              (pc' = "fatal" /\ fatal' = "timerNotFound")]_vars

\* C16, amended: deregistering a handle is fatal exactly when the handle is the
\* address of no pending timer; that is always so for the handle of the timer
\* whose callback is running, and for the handle of a timer that fired or was
\* deregistered it is so unless its memory block was handed to a timer
\* registered later and still pending, which the call then deregisters instead.
C16_DeregisterIsFatalIffHandleNotPending ==
    /\ [][\A id \in 1..timerCount :
             HAPPlatformTimerDeregister(id) =>
                 IF HandlePending(id)
                 THEN /\ pc' = pc
                      /\ Len(timers') = Len(timers) - 1
                      /\ \A k \in 1..Len(timers') : timerAddr[timers'[k].id] # timerAddr[id]
                 ELSE pc' = "fatal" /\ fatal' = "timerNotFound" /\ timers' = timers]_vars
    /\ [](expiredTimer # 0 => ~HandlePending(expiredTimer))

\* a timer callback deregistered the handle of its own timer, the only timer
\* ever registered, and the process was terminated
C16_Witness ==
    /\ pc = "fatal"
    /\ fatal = "timerNotFound"
    /\ expiredTimer = 1
    /\ timerCount = 1

(***************************************************************************)
(* Further claims about the loopback channel (checked under SpecLB)        *)
(***************************************************************************)
RECURSIVE Flatten(_)
\* the bytes of a sequence of datagrams, oldest first
Flatten(dgrams) == IF dgrams = <<>> THEN <<>> ELSE Head(dgrams) \o Flatten(Tail(dgrams))

\* the bytes of the frames written and not yet dispatched, in order of arrival:
\* what is left in the receive buffer behind the context of the callback that is
\* running, then the datagrams still on the channel
PendingBytes == Compact(loopbackBytes, contextSize) \o Flatten(channel)

\* s is what is left of t after bytes were taken from its front
IsSuffix(s, t) == Len(s) <= Len(t) /\ s = SubSeq(t, Len(t) - Len(s) + 1, Len(t))

\* t is s with bytes added at its end
IsExtension(s, t) == Len(s) <= Len(t) /\ s = SubSeq(t, 1, Len(s))

\* C17: scheduled callbacks are invoked in the order in which their frames
\* arrived on the channel: frames join the pending frames only at the end and
\* leave them only at the front, the callback invoked is always that of the
\* oldest pending frame, with the size and context of that frame, and a frame
\* read from the channel is dispatched before the receiver callback returns,
\* that is in the iteration that read it (unless the process is terminated).
C17_ScheduledCallbacksRunInArrivalOrder ==
    /\ [][IsSuffix(PendingBytes', PendingBytes) \/ IsExtension(PendingBytes, PendingBytes')]_vars
    /\ [][(pc = "lbLoop" /\ pc' = "lbCb") =>
             LET inv == lbInvoked'[Len(lbInvoked')]
             IN /\ Len(lbInvoked') = Len(lbInvoked) + 1
                /\ inv.callback = PointerOf(SubSeq(PendingBytes, 1, CallbackPtrSize))
                /\ inv.size = PendingBytes[CallbackPtrSize + 1]
                /\ inv.context = SubSeq(PendingBytes, CallbackPtrSize + 2,
                                        CallbackPtrSize + 1 + inv.size)
                /\ PendingBytes' = Compact(PendingBytes, CallbackPtrSize + 1 + inv.size)]_vars
    /\ [][Len(lbInvoked') # Len(lbInvoked) => (pc = "lbLoop" /\ pc' = "lbCb")]_vars
    /\ [](pc \notin {"lbLoop", "lbCb", "fatal"} => loopbackBytes = <<>>)

\* both threads scheduled a callback, the frame of thread 2 arrived first, and
\* both callbacks were invoked, that of thread 2 first
C17_Witness ==
    /\ Len(lbInvoked) = 2
    /\ lbInvoked[1].callback = CallbackAddress(2)
    /\ lbInvoked[2].callback = CallbackAddress(1)
    /\ lbInvoked[1].size = 255

\* C18 as stated: the one read of an invocation of the receiver callback
\* obtains every frame that was written to the channel before it, so that all
\* of them are dispatched within that invocation.
C18_OneInvocationDispatchesAllFramesWritten ==
    [][(pc = "lbRecv" /\ pc' = "lbLoop") =>
          (channel' = <<>> /\ loopbackBytes' = loopbackBytes \o Flatten(channel))]_vars

\* C18, amended: an invocation of the receiver callback reads one datagram,
\* the oldest, which is one whole frame, dispatches that frame and returns;
\* the frames written behind it stay on the channel, in order, for the
\* following invocations.
C18_OneFramePerInvocation ==
    /\ [][(pc = "lbRecv" /\ pc' = "lbLoop") =>
             /\ loopbackBytes = <<>>
             /\ loopbackBytes' = Head(channel)
             /\ channel' = Tail(channel)]_vars
    /\ [](pc = "lbLoop" /\ loopbackBytes # <<>> =>
             /\ Len(loopbackBytes) >= CallbackPtrSize + 1
             /\ Len(loopbackBytes) = CallbackPtrSize + 1 + loopbackBytes[CallbackPtrSize + 1])
    /\ [][(pc = "lbLoop" /\ pc' # pc /\ loopbackBytes # <<>>) =>
             (pc' = "lbCb" /\ channel' = channel)]_vars
    /\ [][(pc = "lbCb" /\ pc' = "lbLoop") => loopbackBytes' = <<>>]_vars
    /\ [][(pc = "lbLoop" /\ pc' # pc /\ loopbackBytes = <<>>) =>
             (pc' = "io" /\ lbInvoked' = lbInvoked /\ channel' = channel)]_vars

\* both threads have written their frames, the receiver callback has
\* dispatched one of them and is about to return, the other frame is still on
\* the channel
C18_Witness ==
    /\ pc = "lbLoop"
    /\ loopbackBytes = <<>>
    /\ Len(lbInvoked) = 1
    /\ Len(channel) = 1
    /\ \A t \in Threads : thread[t].pc = "done" /\ thread[t].err = "None"

\* a step in which the call of HAPPlatformRunLoopScheduleCallback by thread t returns
ScheduleReturns(t) == thread[t].pc = "ready" /\ thread'[t].pc = "done"

\* C19: a call with a context of more than 255 bytes, or whose frame (callback
\* pointer, one size byte, context) exceeds the atomic-write limit, returns an
\* error and writes nothing; any other call either writes the whole frame to
\* the channel, once, and returns no error, or returns the send error and
\* writes nothing; and a callback is invoked only for a call that returned no
\* error.
C19_ErrorMeansNothingWrittenNothingInvoked ==
    /\ [][\A t \in Threads :
             ScheduleReturns(t) =>
                 LET n == thread'[t].size
                 IN IF n > 255 \/ CallbackPtrSize + 1 + n > PipeBuf
                    THEN thread'[t].err = "OutOfResources" /\ channel' = channel
                    ELSE \/ /\ thread'[t].err = "None"
                            /\ channel' = Append(channel,
                                   PointerBytes(CallbackAddress(t)) \o <<n>> \o ContextOf(t, n))
                         \/ /\ thread'[t].err = "Unknown"
                            /\ channel' = channel]_vars
    /\ [][channel' # channel /\ Len(channel') >= Len(channel) =>
             \E t \in Threads : ScheduleReturns(t)]_vars
    /\ [](\A i \in 1..Len(lbInvoked) :
             \E t \in Threads :
                 /\ lbInvoked[i].callback = CallbackAddress(t)
                 /\ thread[t].pc = "done"
                 /\ thread[t].err = "None")

\* thread 1 got the size error for a context of 256 bytes, the send of thread
\* 2 failed, the loop has completed an iteration and invoked nothing
C19_Witness ==
    /\ thread[1].err = "OutOfResources"
    /\ thread[1].size = 256
    /\ thread[2].err = "Unknown"
    /\ channel = <<>>
    /\ lbInvoked = <<>>
    /\ pc = "cond"

(***************************************************************************)
(* Claims about the socket binding                                         *)
(***************************************************************************)
\* a completion callback resumes continuation c with the result err
SockDelivered(c, err) ==
    /\ sock[c].st = "suspended"
    /\ sock'[c].delivered = Append(sock[c].delivered, err)

\* C20: for connect, accept, send, sendall, sendto, recv and recvfrom, when the
\* completion callback resumes the suspended continuation with the result "in
\* progress", the continuation suspends again on the same operation: it neither
\* returns to the script nor raises an error, however many such results came
\* before
C20_InProgressResultReSuspends ==
    [][\A c \in SockCos :
          SockDelivered(c, "IN_PROGRESS") =>
              /\ sock'[c].st = "suspended"
              /\ sock'[c].op = sock[c].op
              /\ sock'[c].k = sock[c].k
              /\ sock'[c].error = "none"]_vars

\* the platform functions behind connect, accept, send, sendall, sendto, recv
\* and recvfrom
PrimitiveCalls ==
    {"pal_socket_connect", "pal_socket_accept", "pal_socket_send", "pal_socket_sendto",
     "pal_socket_recv"}

\* the step is a call of one of these primitives in continuation c that
\* reached the platform function
SockCalled(c) ==
    /\ palCall'.fn \in PrimitiveCalls
    /\ sock[c].st # "suspended"
    /\ sock'[c].delivered = <<>>
    /\ sock'[c].on = palCall'.o

\* the kinds of the values each primitive returns to the script
ResultKinds(op) ==
    CASE op = "accept" -> <<"Socket*", "addr", "port">>
      [] op = "connect" -> <<>>
      [] op \in {"send", "sendto"} -> <<"int">>
      [] op = "recv" -> <<"data">>
      [] op = "recvfrom" -> <<"data", "addr", "port">>

Kinds(values) == [i \in 1..Len(values) |-> values[i].t]

\* C21: for connect, accept, send, sendto, recv and recvfrom exactly one of
\* three outcomes follows the platform call: on synchronous success the
\* primitive returns its results to the script without suspending; on "in
\* progress" the continuation suspends; on any other result an error is raised
\* and the continuation is not suspended
C21_ThreeOutcomesOfThePlatformCall ==
    [][\A c \in SockCos :
          (/\ SockCalled(c)
           /\ sock'[c].op \in {"connect", "accept", "send", "sendto", "recv", "recvfrom"})
          => CASE palCall'.err = "OK" ->
                      /\ sock'[c].st = "script"
                      /\ Kinds(sock'[c].ret) = ResultKinds(sock'[c].op)
               [] palCall'.err = "IN_PROGRESS" -> sock'[c].st = "suspended"
               [] OTHER -> sock'[c].st = "raised" /\ sock'[c].error = palCall'.err]_vars

\* the step is a call of method op in continuation c
MethodCalled(c, op) == sock'[c].op = op /\ sock'[c] # sock[c] /\ sock[c].st # "suspended"

\* C22: destruction is idempotent: in any sequence of destroy, __close and
\* __gc on one socket object no call raises (a destroy of a destroyed socket
\* does nothing) and the platform socket is released exactly once
C22_DestructionIsIdempotent ==
    /\ [][\A c \in SockCos : MethodCalled(c, "destroy") => sock'[c].st = "script"]_vars
    /\ [](\A o \in SockObjs :
             /\ sockObj[o].released <= 1
             /\ sockObj[o].released = 1 <=> sockObj[o].socket = NULL)

\* the I/O and configuration methods of a socket object
SocketOperations ==
    {"settimeout", "enablebroadcast", "bind", "listen", "accept", "connect",
     "send", "sendall", "sendto", "recv", "recvfrom"}

\* C23: every I/O or configuration operation on a destroyed socket raises an
\* error before any platform socket function is called and without suspending
\* the caller
C23_OperationOnDestroyedSocketRaises ==
    [][\A c \in SockCos, op \in SocketOperations :
          (MethodCalled(c, op) /\ sockObj[sock'[c].on].socket = NULL)
          => /\ sock'[c].st = "raised"
             /\ sock'[c].error = "destroyed"
             /\ palCall' = NoCall]_vars

\* a receive was refused because its socket had been destroyed
C23_Witness ==
    \E c \in SockCos :
        /\ sock[c].op = "recv"
        /\ sock[c].st = "raised"
        /\ sock[c].error = "destroyed"
        /\ sockObj[sock[c].on].socket = NULL
        /\ sockObj[sock[c].on].released = 1

\* the step is the completion of the request continuation c is suspended on
OwnCompletion(c) ==
    /\ sock[c].st = "suspended"
    /\ cbReg' = Reg(sock[c].op, sock[c].on, c)

\* the step ends a send or a sendall of continuation c with success: the call
\* itself or a resumption of it returns to the script
SendReturns(c, op) ==
    /\ sock'[c].op = op
    /\ sock'[c].st = "script"
    /\ \/ MethodCalled(c, op)
       \/ sock[c].op = op /\ sock[c].st = "suspended" /\ OwnCompletion(c)

C25_ResolveReturnsAddressOrRaises ==
    [][\A c \in SockCos :
          /\ MethodCalled(c, "resolve") =>
                /\ palCall'.fn = "pal_dns_start_request"
                /\ IF palCall'.err = "OK"
                   THEN sock'[c].st = "suspended"
                   ELSE /\ sock'[c].st = "raised"
                        /\ sock'[c].error = "failed to start DNS resolution request"
          /\ (sock[c].op = "resolve" /\ SockDelivered(c, "addr")) =>
                /\ sock'[c].st = "script"
                /\ sock'[c].ret = <<Val("addr")>>
                /\ palCall' = NoCall
          /\ (sock[c].op = "resolve" /\ SockDelivered(c, "none")) =>
                /\ sock'[c].st = "raised"
                /\ sock'[c].error = "failed to resolve"
                /\ palCall' = NoCall]_vars

(***************************************************************************)
(* Claims about the suspension protocol                                    *)
(***************************************************************************)
\* the requests of the platform that have continuation c as their resume target
Outstanding(c) == {r \in pending : r.c = c}

\* the step is a completion callback that resumes continuation c
CompletionResumes(c) ==
    /\ cbReg' # NoReg
    /\ cbReg'.c = c
    /\ sock[c].st = "suspended"

\* C26: at any time each continuation is the resume target of at most one
\* pending socket operation or DNS request, and a completion only ever resumes
\* a continuation that is suspended on that very operation
C26_AtMostOneOutstandingSuspension ==
    /\ [](\A c \in SockCos : Cardinality(Outstanding(c)) <= 1)
    /\ [][\A c \in SockCos : CompletionResumes(c) => OwnCompletion(c)]_vars

(***************************************************************************)
(* Claims about failures of the run loop                                   *)
(***************************************************************************)
\* the state of the run loop apart from the history of the register calls
loopState == <<state, pc, fatal, now, timers, timerCount, timerAddr, timerFate, expiredTimer,
               tnow, fh, fhCount, cursor, fileHandle, fileHandleEvents, fdsets, timeoutAt, lbFd0, lbFd1, lbHandle,
               iterLog, passEligible, stopLog>>

\* C27: when allocation fails, HAPPlatformFileHandleRegister and
\* HAPPlatformTimerRegister return the out-of-resources error, output a null
\* handle and leave the file-handle list, the timer list and all other state
\* of the loop as they were before the call
C27_AllocationFailureIsReturned ==
    [][regFailed' # NoFailure =>
          /\ regFailed'.fn \in {"HAPPlatformFileHandleRegister", "HAPPlatformTimerRegister"}
          /\ regFailed'.err = "OutOfResources"
          /\ regFailed'.handle = NullHandle
          /\ timers' = timers
          /\ FHList(fh') = FHList(fh)
          /\ UNCHANGED loopState]_vars

\* a registration of a file handle has failed inside a file-handle callback
\* while a timer and a file handle were registered
C27_Witness ==
    /\ regFailed = RegisterFailed("HAPPlatformFileHandleRegister")
    /\ pc = "fhCb"
    /\ timers # <<>>
    /\ Registered(fh) # {}

\* the callbacks invoked so far and the callback that is running
dispatched == <<iterLog, lbInvoked, expiredTimer, fileHandle>>

\* HandleLoopbackFileHandleCallback: recv() finds nothing to read (EAGAIN)
LoopbackRecvWouldBlock ==
    LoopbackRecv /\ channel = <<>> /\ Len(loopbackBytes) < LoopbackBufSize

\* C28: a failure of select other than EINTR, a failure of the loopback read
\* other than EINTR and EAGAIN, and a loopback read of zero bytes each end the
\* process; once it has ended no callback is dispatched; a loopback read that
\* would block returns without dispatching anything and is not fatal
C28_WaitAndLoopbackFailuresAreFatal ==
    [][/\ RunSelectFails => pc' = "fatal" /\ fatal' = "select"
       /\ \A n \in RecvFailures :
             LoopbackRecvFails(n) => pc' = "fatal" /\ fatal' # "none"
       /\ pc = "fatal" => pc' = "fatal" /\ fatal' = fatal /\ UNCHANGED dispatched
       /\ pc' = "fatal" => UNCHANGED <<iterLog, lbInvoked>>
       /\ LoopbackRecvWouldBlock =>
             /\ pc' = "io"
             /\ fatal' = "none"
             /\ fileHandle' = 0
             /\ UNCHANGED <<iterLog, lbInvoked, loopbackBytes>>]_vars

\* the loopback read has returned zero bytes after a scheduled callback was
\* invoked, and other threads have sent more
C28_Witness ==
    /\ fatal = "loopbackNoData"
    /\ pc = "fatal"
    /\ lbInvoked # <<>>
    /\ channel # <<>>

(***************************************************************************)
(* Claims about file handles registered during the passes                  *)
(***************************************************************************)
\* the step invokes the callback of file handle h
FileHandleInvoked(h) == pc = "io" /\ fileHandle' = h /\ iterLog' = Append(iterLog, <<"F", h>>)

\* C29: a file handle registered while the timer firing pass or the delivery
\* pass of the current iteration is in progress does not have its callback
\* invoked in that iteration
C29_LateHandleWaitsForNextIteration ==
    /\ [][\A h \in HandleIds : FileHandleInvoked(h) => h \notin lateHandles]_vars
    /\ [](lateHandles \cap Invoked = {})

\* the delivery pass has ended without invoking a handle that was registered
\* during the iteration on a descriptor that was signalled
C29_Witness ==
    /\ iterLog # <<>>
    /\ iterLog[Len(iterLog)][1] = "IOdone"
    /\ \E h \in lateHandles :
          /\ h \in Registered(fh)
          /\ fh[h].callback # "NULL"
          /\ fh[h].interests \cap fdsets[fh[h].fd] # {}

(***************************************************************************)
(* Claims about the stored deadlines                                       *)
(***************************************************************************)
\* the step registers a timer with the deadline argument d
TimerRegistered(d) == HAPPlatformTimerRegister(d, TRUE)

\* the deadline stored for timer id
DeadlineOf(ts, id) == (CHOOSE t \in SeqToSet(ts) : t.id = id).deadline

\* C30: no pending timer has a stored deadline of zero: a registration with
\* deadline 0 is stored with deadline 1, any other as given; so the loop's
\* test 'nextDeadline is 0' is true exactly when the timer list is empty, and
\* the wait in select has no timeout only when no timer is pending
C30_StoredDeadlineIsNeverZero ==
    /\ [](\A i \in 1..Len(timers) : timers[i].deadline # 0)
    /\ []((NextDeadline(timers) = 0) <=> (timers = <<>>))
    /\ [](pc = "select" => ((timeoutAt = NULL) <=> (timers = <<>>)))
    /\ [][\A d \in Deadlines :
             TimerRegistered(d) =>
                 DeadlineOf(timers', timerCount') = (IF d = 0 THEN 1 ELSE d)]_vars

\* the loop waits with a timeout on a timer that was registered with deadline
\* 0 after a timer with deadline 1: it is stored with deadline 1 in front of it
C30_Witness ==
    /\ pc = "select"
    /\ timeoutAt # NULL
    /\ Len(timers) = 2
    /\ timers[1].id = 2
    /\ timers[1].deadline = 1
    /\ timers[2].deadline = 1

(***************************************************************************)
(* Claims about the shape of the timer list                                *)
(***************************************************************************)
\* the list is in ascending order of the stored deadlines
TimersSorted(ts) == \A i, j \in 1..Len(ts) : i < j => ts[i].deadline <= ts[j].deadline

\* the timers registered so far that neither fired nor were deregistered
PendingTimers == {id \in 1..timerCount : timerFate[id] = "pending"}

\* C31: at every point, inside timer callbacks that register or deregister
\* timers included, the list of pending timers is sorted by stored deadline
\* and holds exactly the timers that were registered and neither fired nor
\* were deregistered, each once; the timer whose callback is running is not
\* in the list
C31_TimerListSortedAndExact ==
    /\ TimersSorted(timers)
    /\ Len(timers) = Cardinality(TimerIds(timers))
    /\ TimerIds(timers) = PendingTimers
    /\ expiredTimer # 0 => expiredTimer \notin TimerIds(timers)

\* a timer callback is running while another timer, which is due in the same
\* firing pass, is still in the list
C31_Witness ==
    /\ pc = "timerCb"
    /\ expiredTimer # 0
    /\ Len(timers) = 1
    /\ Head(timers).id # expiredTimer
    /\ Head(timers).deadline <= tnow

(***************************************************************************)
(* Claims about an interrupted wait                                        *)
(***************************************************************************)
\* the wait of the current iteration was interrupted
Interrupted == LogIdx("EINTR") # {}

\* C32: when the wait returns with an interrupt, no timer callback and no file
\* handle callback is invoked in that iteration; control goes to the loop
\* condition, from where the loop starts a new iteration that rebuilds the
\* interest sets and the timeout if the state is still Running, and exits if
\* Stop was requested
C32_InterruptedWaitSkipsToLoopCondition ==
    /\ [](Interrupted => LogIdx("T") = {} /\ LogIdx("F") = {})
    /\ [][RunSelectInterrupted => pc' = "cond" /\ timers' = timers /\ fh' = fh]_vars
    /\ [][(pc = "cond" /\ Interrupted) =>
             \/ state = "Running" /\ pc' = "build" /\ state' = "Running"
             \/ state = "Stopping" /\ pc' = "out" /\ state' = "Idle"]_vars
    /\ [][(pc = "build" /\ pc' # "build") =>
             /\ pc' = "select"
             /\ fdsets' = BuiltSets(fh)
             /\ timeoutAt' = TimeoutOf(timers, now)]_vars

\* Run has returned after a wait that was interrupted while a timer was due
\* and Stop had been requested during the wait
C32_Witness ==
    /\ pc = "out"
    /\ state = "Idle"
    /\ Interrupted
    /\ LogIdx("Stop") # {}
    /\ timers # <<>>
    /\ Head(timers).deadline <= now
    /\ Registered(fh) # {}

(***************************************************************************)
(* Claims about the events delivered to file handle callbacks              *)
(***************************************************************************)
\* C33: a file handle's callback is invoked in a delivery pass only if its
\* interests at the moment of dispatch and the events signalled for its
\* descriptor have a non-empty intersection, and the events passed to the
\* callback are exactly that intersection; a handle whose interests or callback
\* were cleared by an earlier callback of the pass is not invoked
C33_CallbackGetsInterestsSignalled ==
    /\ [][\A h \in HandleIds :
             FileHandleInvoked(h) =>
                /\ fh[h].interests \cap fdsets[fh[h].fd] # {}
                /\ fileHandleEvents' = fh[h].interests \cap fdsets[fh[h].fd]
                /\ fh[h].callback # "NULL"]_vars
    /\ [][\A h \in HandleIds :
             (pc = "io" /\ cursor = h /\ (fh[h].interests = {} \/ fh[h].callback = "NULL")) =>
                (pc' = "io" /\ iterLog' = iterLog)]_vars
    /\ [](pc = "fhCb" =>
            /\ fileHandleEvents # {}
            /\ fh[fileHandle].fd # NoFd => fileHandleEvents \subseteq fdsets[fh[fileHandle].fd])

\* a delivery pass has ended in which a callback was invoked on a handle that
\* does not have every event signalled for its descriptor among its interests,
\* and a later handle that was signalled when the pass began was passed over
\* because its interests or its callback had been cleared
C33_Witness ==
    /\ pc = "cond"
    /\ PassDone
    /\ \E a \in Invoked, g \in passEligible :
          /\ a < g
          /\ a \in Registered(fh)
          /\ ~(fdsets[fh[a].fd] \subseteq fh[a].interests)
          /\ g \in Registered(fh)
          /\ g \notin Invoked
          /\ fh[g].interests = {} \/ fh[g].callback = "NULL"

(***************************************************************************)
(* Claims about the shape of the file handle list                          *)
(***************************************************************************)
\* the handles registered so far whose memory was not invalidated by Deregister
LiveHandles == {h \in 1..fhCount : fh[h].fd # NoFd}

RECURSIVE Ascending(_)
\* the elements of a set of handles in allocation order
Ascending(S) ==
    IF S = {} THEN <<>>
    ELSE LET m == CHOOSE x \in S : \A y \in S : x <= y
         IN <<m>> \o Ascending(S \ {m})

\* n.next.prev = n and n.prev.next = n
WellLinked(f, n) ==
    /\ f[n].next # NULL
    /\ f[n].prev # NULL
    /\ f[f[n].next].prev = n
    /\ f[f[n].prev].next = n

\* C34: in every reachable state, after any sequence of register and
\* deregister calls, calls from callbacks of a delivery pass included, the file
\* handle list is a well-formed circular doubly-linked list through the
\* sentinel, it holds exactly the handles registered and not yet deregistered,
\* in registration order, and the cursor points to the sentinel or to a handle
\* that is in the list
C34_FileHandleListWellFormed ==
    /\ \A n \in LiveHandles \cup {Sentinel} : WellLinked(fh, n)
    /\ FHList(fh) = Ascending(LiveHandles)
    /\ cursor = Sentinel \/ cursor \in Registered(fh)

\* inside the callback of the first handle the second handle, which the cursor
\* pointed to, has been deregistered and the cursor is at the third
C34_Witness ==
    /\ pc = "fhCb"
    /\ fileHandle = 1
    /\ 2 \in passEligible
    /\ 2 \notin LiveHandles
    /\ fhCount = 3
    /\ cursor = 3

(***************************************************************************)
(* Claims about the number of invocations in one iteration                 *)
(***************************************************************************)
\* C35: within one iteration of Run the callback of each file handle is invoked
\* at most once, whatever the callbacks of the iteration register, deregister
\* or update; the awaiting flag of a handle is cleared before its callback is
\* invoked and is set only while the interest sets are built
C35_AtMostOneInvocationPerIteration ==
    /\ [](\A i, j \in LogIdx("F") : i # j => iterLog[i][2] # iterLog[j][2])
    /\ [][\A h \in HandleIds :
             /\ FileHandleInvoked(h) => (fh[h].awaiting /\ ~fh'[h].awaiting)
             /\ (pc = "io" /\ cursor = h) => ~fh'[h].awaiting
             /\ (~fh[h].awaiting /\ fh'[h].awaiting) => (pc = "build" /\ pc' = "select")]_vars
    /\ [](pc \in {"fhCb", "lbRecv", "lbLoop", "lbCb"} => ~fh[fileHandle].awaiting)

\* a delivery pass with two invocations has ended: one of the handles invoked
\* was deregistered by a callback of the pass, the other is still registered
\* with a callback and with interests that were signalled
C35_Witness ==
    /\ pc = "cond"
    /\ PassDone
    /\ Cardinality(LogIdx("F")) = 2
    /\ \E h \in Invoked :
          /\ h \in Registered(fh)
          /\ fh[h].callback # "NULL"
          /\ fh[h].interests \cap fdsets[fh[h].fd] # {}
    /\ \E g \in Invoked : g \notin LiveHandles

(***************************************************************************)
(* Claims about the size of the loopback buffer                            *)
(***************************************************************************)
\* the bytes are less than one frame: the conditions under which the for loop
\* of the receiver callback breaks
StrictPrefixOfFrame(bytes) ==
    \/ Len(bytes) < CallbackPtrSize + 1
    \/ Len(bytes) < CallbackPtrSize + 1 + ContextSizeOf(bytes)

\* the receiver callback returns in the step
ReceiverReturns == pc \in {"lbRecv", "lbLoop"} /\ pc' = "io"

\* C36: the loopback buffer never overflows: at every entry to the receiver
\* callback the number of buffered bytes is less than the size of the buffer,
\* so that the assertion at entry holds, the number of bytes never exceeds the
\* size of the buffer, and when the callback returns the buffer holds a strict
\* prefix of one frame, which is no byte at all as every read delivers a whole
\* frame
C36_LoopbackBufferNeverOverflows ==
    /\ [](Len(loopbackBytes) <= LoopbackBufSize)
    /\ [](pc = "lbRecv" => Len(loopbackBytes) < LoopbackBufSize)
    /\ [][pc = "lbRecv" => fatal' # "assert"]_vars
    /\ [][ReceiverReturns =>
             /\ StrictPrefixOfFrame(loopbackBytes')
             /\ loopbackBytes' = <<>>]_vars

\* the receiver callback has returned after a frame that fills the whole
\* buffer was read and dispatched, and the next frame waits on the channel
C36_Witness ==
    /\ pc = "io"
    /\ fileHandle = 0
    /\ Len(lbInvoked) = 1
    /\ lbInvoked[1].size = Uint8Max
    /\ loopbackBytes = <<>>
    /\ channel # <<>>
    /\ Len(Head(channel)) = LoopbackBufSize

(***************************************************************************)
(* Claims about the end of the firing pass                                 *)
(***************************************************************************)
\* C37: every timer firing pass terminates and is followed by the delivery
\* pass of the same iteration, whatever timers the callbacks register, each
\* callback registering finitely many, with deadlines that may be due or zero
\* (unless the process is terminated)
C37_FiringPassIsFollowedByDelivery == (pc = "timers") ~> (pc = "io" \/ fatal # "none")

\* the continuations a send has still to resume, and those it has resumed
Unresumed(f) == SubSeq(f.tbl, f.i, Len(f.tbl))

ResumedBy(f) == SubSeq(f.tbl, 1, f.i - 1)

Occurs(c, seq) == {j \in 1..Len(seq) : seq[j] = c}

\* the running continuation calls recv on the empty queue and is suspended
WaitsAgain(c) == running = c /\ running' = 0 /\ co'[c].st = "waiting"

\* C38: a receiver that a send resumed and that calls recv again on the empty
\* queue is put on a fresh wait list, not on the list the send is walking; the
\* send resumes each continuation that was waiting when it began at most once,
\* and a continuation that starts waiting during the send stays suspended
\* until a later send takes the list it is on.
C38_ResumedReceiverWaitsForALaterSend ==
    /\ [](\A n \in 1..Len(sends) :
             /\ \A c \in Cos : Cardinality(Occurs(c, sends[n].tbl)) <= 1
             /\ \A c \in Cos : Occurs(c, ResumedBy(sends[n])) # {}
                                  => Occurs(c, Unresumed(sends[n])) = {})
    /\ [][\A c \in Cos : (sends # <<>> /\ WaitsAgain(c)) =>
             /\ sends' = sends
             /\ wait' = WaitAppend(wait, c)
             /\ Occurs(c, wait') # {}
             /\ \A n \in 1..Len(sends) : Occurs(c, Unresumed(sends[n])) = {}]_vars
    /\ [][Resuming =>
             /\ co[running'].st = "waiting"
             /\ Occurs(running', Top.tbl) = {Top.i}
             /\ Occurs(running', Unresumed(sends'[Len(sends)])) = {}
             /\ (wait # NoWait => Occurs(running', wait) = {})
             /\ wait' = wait]_vars
    /\ [](\A c \in Cos : co[c].st = "waiting" =>
             Cardinality(Occurs(c, IF wait = NoWait THEN <<>> ELSE wait))
               + Cardinality({n \in 1..Len(sends) : Occurs(c, Unresumed(sends[n])) # {}}) = 1)

\* a send has resumed its first waiter, which called recv again and waits on
\* the fresh list, while the send has another waiter of its own to resume
C38_Witness ==
    /\ sends # <<>>
    /\ Top.i = 2
    /\ Len(Top.tbl) >= 2
    /\ running = 0
    /\ co[Top.tbl[1]].st = "waiting"
    /\ wait # NoWait
    /\ Occurs(Top.tbl[1], wait) # {}
    /\ co[Top.tbl[2]].st = "waiting"

\* the steps of a request: it begins, its receive fails with a timeout, it
\* hands its packet to the socket
Begins(r) == req[r].pc = "idle" /\ req'[r].pc # "idle"

RecvTimedOut(r) == req[r].pc = "recv" /\ req'[r].pc = "idle" /\ req'[r].out = "timeout"

SendsPacket(r) == ~req[r].sent /\ req'[r].sent

\* C39: a request whose receive fails with a timeout clears the stored
\* time-stamp offset, which then stays unset until a handshake succeeds, so a
\* request begun after it handshakes before it sends; a request begun while
\* the offset is set goes to its send with no handshake; and no request hands
\* a packet to the socket while the offset is unset.
C39_TimeoutForcesHandshakeBeforeNextSend ==
    /\ [][\A r \in Reqs : RecvTimedOut(r) => stampDiff' = LuaNil]_vars
    /\ [][(stampDiff = LuaNil /\ stampDiff' # LuaNil) =>
             \E r \in Reqs : req[r].pc = "scan" /\ req'[r].pc = "connect" /\ req'[r].hs]_vars
    /\ [][\A r \in Reqs : (Begins(r) /\ stampDiff = LuaNil) =>
             req'[r].pc = "scan" /\ ~req'[r].sent]_vars
    /\ [][\A r \in Reqs : (Begins(r) /\ stampDiff # LuaNil) =>
             req'[r].pc = "connect" /\ ~req'[r].unset]_vars
    /\ [](\A r \in Reqs : req[r].hs <=> (req[r].unset /\ req[r].pc \in {"connect", "send", "recv"}))
    /\ [](\A r \in Reqs : req[r].pc = "scan" => ~req[r].sent)
    /\ [][\A r \in Reqs : SendsPacket(r) =>
             /\ stampDiff # LuaNil
             /\ stampDiff' # LuaNil
             /\ req[r].unset => req[r].hs]_vars

\* the request a continuation made after its request that timed out has made
\* its handshake and has sent its packet
C39_Witness ==
    /\ req[1].out = "timeout"
    /\ req[1].pc = "recv"
    /\ req[1].unset
    /\ req[1].hs
    /\ req[1].sent
    /\ stampDiff = StampOffset

\* C40: first and last stay within 1..size+1, and lmq_size is the number of
\* messages stored in the buffer, sent and not yet received, also when last
\* has wrapped around below first.
C40_RingIndicesBoundedAndSizeExact ==
    /\ first \in 1..(size + 1)
    /\ last \in 1..(size + 1)
    /\ lmq_size(first, last, size) = Cardinality(Buffered)

====
